---- MODULE Spec2Model ----
(***************************************************************************)
(* wreckit: the item lifecycle engine.  One backlog item is driven through *)
(* raw -> researched -> planned -> implementing -> in_pr -> done by the    *)
(* phase runners of src/workflow/itemWorkflow.ts, which are reached only   *)
(* through the CLI commands of src/commands/phase.ts and                   *)
(* src/commands/run.ts.  The model follows the bundled build               *)
(* src/dist/index.js and the TypeScript sources beside it.                 *)
(*                                                                         *)
(* Story documents are modelled by their list of story statuses; the       *)
(* priorities, titles and notes of stories do not influence any state      *)
(* written by the runners.                                                 *)
(***************************************************************************)
EXTENDS Integers, Sequences, FiniteSets

\* ------------------------------------------------------------------ bounds
\* longest story list of a story document
MaxStories == 2
\* config.max_iterations of the implement loop
MaxIterations == 2
\* pull requests the code-hosting service ever holds for the item's branch
MaxPrs == 2

\* ------------------------------------------------------ values and schemas
\* null of a nullable string field
Null == "<null>"
\* null of a nullable number field (a number n is held as {n})
NoNumber == {}

WORKFLOW_STATES == <<"raw", "researched", "planned", "implementing", "in_pr", "done">>

WorkflowState == {WORKFLOW_STATES[i] : i \in 1..Len(WORKFLOW_STATES)}

StoryStatus == {"pending", "done"}

\* the lists of story statuses of length at most n
StoryLists(n) == UNION {[1..k -> StoryStatus] : k \in 0..n}

\* what loadPrdSafe yields for a missing, unparseable or schema-invalid file
NullPrd == [kind |-> "null", user_stories |-> <<>>]

ValidPrd(stories) == [kind |-> "valid", user_stories |-> stories]

\* prd.json on disk: absent, present but not valid against PrdSchema, or valid
PrdAbsent == [kind |-> "absent", user_stories |-> <<>>]

PrdInvalid == [kind |-> "invalid", user_stories |-> <<>>]

PrdFiles == {PrdAbsent, PrdInvalid} \cup {ValidPrd(s) : s \in StoryLists(MaxStories)}

\* 0-based index of a state in WORKFLOW_STATES, as Array.indexOf gives it
getStateIndex(state) == CHOOSE i \in 0..(Len(WORKFLOW_STATES) - 1) : WORKFLOW_STATES[i + 1] = state

\* the successor read at the state's own index
getNextState_SameState(current) == current

getNextState(current) ==
  LET index == getStateIndex(current)
  IN  IF index >= Len(WORKFLOW_STATES) - 1 THEN Null ELSE WORKFLOW_STATES[(index + 1) + 1]

getAllowedNextStates(current) ==
  LET next == getNextState(current)
  IN  IF next # Null THEN {next} ELSE {}

\* ------------------------------------------------------------- validation
\* some in place of every
allStoriesDone_Some(prd) ==
  IF prd = NullPrd \/ Len(prd.user_stories) = 0
  THEN FALSE
  ELSE \E i \in 1..Len(prd.user_stories) : prd.user_stories[i] = "done"

allStoriesDone(prd) ==
  IF prd = NullPrd \/ Len(prd.user_stories) = 0
  THEN FALSE
  ELSE \A i \in 1..Len(prd.user_stories) : prd.user_stories[i] = "done"

\* no story is ever seen pending
hasPendingStories_Never(prd) == FALSE

hasPendingStories(prd) ==
  IF prd = NullPrd
  THEN FALSE
  ELSE \E i \in 1..Len(prd.user_stories) : prd.user_stories[i] = "pending"

Valid == [valid |-> TRUE, reason |-> Null]

Invalid(reason) == [valid |-> FALSE, reason |-> reason]

canEnterResearched(ctx) ==
  IF ~ctx.hasResearchMd THEN Invalid("research.md does not exist") ELSE Valid

\* the guard of planned without its test of the story document
canEnterPlanned_PlanOnly(ctx) ==
  IF ~ctx.hasPlanMd THEN Invalid("plan.md does not exist") ELSE Valid

canEnterPlanned(ctx) ==
  IF ~ctx.hasPlanMd THEN Invalid("plan.md does not exist")
  ELSE IF ctx.prd = NullPrd THEN Invalid("prd.json is not valid")
  ELSE Valid

canEnterImplementing(ctx) ==
  IF ~hasPendingStories(ctx.prd)
  THEN Invalid("prd.json has no stories with status pending")
  ELSE Valid

canEnterInPr(ctx) ==
  IF ~allStoriesDone(ctx.prd) THEN Invalid("not all stories are done")
  ELSE IF ~ctx.hasPr THEN Invalid("PR not created")
  ELSE Valid

canEnterDone(ctx) ==
  IF ~ctx.prMerged THEN Invalid("PR not merged") ELSE Valid

validateTransition(current, target, ctx) ==
  IF target \notin getAllowedNextStates(current)
  THEN Invalid("cannot transition")
  ELSE CASE target = "researched"   -> canEnterResearched(ctx)
         [] target = "planned"      -> canEnterPlanned(ctx)
         [] target = "implementing" -> canEnterImplementing(ctx)
         [] target = "in_pr"        -> canEnterInPr(ctx)
         [] target = "done"         -> canEnterDone(ctx)
         [] OTHER                   -> Invalid("unknown target state")

\* the contexts validateTransition is applied to
ValidationContexts ==
  [hasResearchMd : BOOLEAN, hasPlanMd : BOOLEAN,
   prd : {NullPrd} \cup {ValidPrd(s) : s \in StoryLists(MaxStories)},
   hasPr : BOOLEAN, prMerged : BOOLEAN]

\* ------------------------------------------------------------------ state
VARIABLES
  item,            \* item.json of the item: the persisted record
  hasResearchMd,   \* research.md exists in the item's folder
  hasPlanMd,       \* plan.md exists
  prdFile,         \* prd.json: absent, invalid or a valid story document
  branchLocal,     \* the item's branch exists in the local repository
  dirty,           \* git status --porcelain prints something
  remotePr,        \* pull requests the hosting service holds for the branch (the latest has this number)
  prMerged,        \* the latest pull request is merged
  cmd,             \* the CLI command in progress and its options
  exit,            \* how the last CLI command ended: "none", "ok" or "error"
  pc,              \* position of the command or of the runner it awaits
  phase,           \* the runner in progress
  opts,            \* the runner's options {force, dryRun}
  mem,             \* the runner's local variable item
  prd,             \* the runner's local variable prd
  iteration,       \* the implement runner's local variable iteration
  prResult,        \* the delivery runner's local variable prResult (its number)
  ret,             \* what the runner returned: status and error
  startItem,       \* history: the persisted record when the runner was entered
  agentCalls,      \* history: agent processes spawned by this runner call
  vcsLog,          \* history: VCS adapter operations of this runner call, in order
  progressAppends, \* history: records appended to progress.log by this runner call
  createdOverPr,   \* history: gh pr create was issued while the branch had a pull request
  mergeQuery,      \* history: what the merge-status query of this runner call reported
  pushExit,        \* history: how git push of this runner call exited
  promptsDir,      \* the prompts directory exists
  indexJson,       \* index.json: absent, in sync with the items, or stale
  dOptions,        \* doctor: options of the run (fix)
  dQueue,          \* doctor: fixableDiagnostics not yet handled by applyFixes
  dResults,        \* doctor: results of applyFixes
  oItems,          \* run-all/next: the persisted state of every item, by identifier
  opc,             \* run-all/next: where orchestrateAll or orchestrateNext stands
  oOptions,        \* run-all/next: mode and dryRun of the command
  oScan,           \* run-all/next: what scanItems returned
  oQueue,          \* run-all: nonDoneItems, as identifiers
  oI,              \* run-all: the index i of the for loop
  oPc,             \* run-all/next: where runCommand stands, for every item
  oStalls,         \* runner calls of the current run that succeeded without advancing
  oInvocations,    \* subprocess invocations of the current runner call
  oResult,         \* run-all/next: the result returned
  oAttempts,       \* history: the items runCommand was called on, in order
  loopPrev,        \* history: the state the run loop read at its previous iteration
  opStart,         \* history: the persisted state when the running command started
  vIn,             \* the arguments validateTransition is applied to
  vOut,            \* its result
  aMarker,         \* runAgent: config.completion_signal, a string of characters
  aTimeoutSet,     \* runAgent: config.timeout_seconds > 0
  aIgnoresTerm,    \* the agent process ignores SIGTERM
  aToWrite,        \* bytes the agent process writes that have not reached a data handler
  aWritten,        \* history: the bytes the data handlers were given, in order
  aOutput,         \* runAgent's local variable output
  aCompletion,     \* runAgent's local variable completionDetected
  aTimedOut,       \* runAgent's local variable timedOut
  aProc,           \* the child process: "none", "running", "exited", "closed" or "failed"
  aExitCode,       \* its exit code ({} for null: killed by a signal)
  aKilled,         \* child.killed
  aSignal,         \* the signal sent to the process and not yet acted on
  aTimer,          \* the timeout timer and the grace timer it starts
  aResult,         \* what the promise of runAgent resolved with
  dpc,             \* wreckit doctor: position of the command
  dDiagnostics,    \* doctor: the diagnostics of the item
  dItem,           \* applyFixes: its local variable item, read from item.json
  dNewState,       \* applyFixes: its local variable newState
  dFix,            \* applyFixes: the result of the fix {fixed, from, to}
  dRuns,           \* history: how many times wreckit doctor was started
  fIn,             \* a function applied on its own: its name and its arguments
  fOut             \* what it returned

diskVars == <<item, hasResearchMd, hasPlanMd, prdFile>>

artifactVars == <<hasResearchMd, hasPlanMd, prdFile>>

gitVars == <<branchLocal, dirty, remotePr, prMerged>>

localVars == <<mem, prd, iteration, prResult>>

histVars == <<startItem, agentCalls, vcsLog, progressAppends, createdOverPr, mergeQuery, pushExit>>

valVars == <<vIn, vOut>>

fnVars == <<fIn, fOut>>

orchVars == <<oItems, opc, oOptions, oScan, oQueue, oI, oPc, oStalls, oInvocations, oResult,
              oAttempts>>

doctorVars == <<dpc, dDiagnostics, dItem, dNewState, dFix, dRuns, dOptions, dQueue, dResults,
                promptsDir, indexJson>>

agentVars == <<aMarker, aTimeoutSet, aIgnoresTerm, aToWrite, aWritten, aOutput, aCompletion,
               aTimedOut, aProc, aExitCode, aKilled, aSignal, aTimer, aResult>>

vars == <<item, hasResearchMd, hasPlanMd, prdFile, branchLocal, dirty, remotePr, prMerged,
          cmd, exit, pc, phase, opts, mem, prd, iteration, prResult, ret,
          startItem, agentCalls, vcsLog, progressAppends, createdOverPr, mergeQuery,
          pushExit, loopPrev, opStart, vIn, vOut,
          aMarker, aTimeoutSet, aIgnoresTerm, aToWrite, aWritten, aOutput, aCompletion,
          aTimedOut, aProc, aExitCode, aKilled, aSignal, aTimer, aResult,
          dpc, dDiagnostics, dItem, dNewState, dFix, dRuns, dOptions, dQueue, dResults,
          promptsDir, indexJson,
          oItems, opc, oOptions, oScan, oQueue, oI, oPc, oStalls, oInvocations, oResult,
          oAttempts, fIn, fOut>>

\* the branch ensureBranch derives from branch_prefix and the item's slug
BranchName == "wreckit/item"

createItemFromIdea ==
  [state |-> "raw", branch |-> Null, pr_url |-> NoNumber, pr_number |-> NoNumber,
   last_error |-> Null]

NoCmd == [name |-> "none", force |-> FALSE, dryRun |-> FALSE]

NoOpts == [force |-> FALSE, dryRun |-> FALSE]

NoRet == [status |-> "none", error |-> Null]

Success == [status |-> "success", error |-> Null]

Failure(error) == [status |-> "failure", error |-> error]

\* an exception that leaves the runner (createOrUpdatePr throws)
Threw(error) == [status |-> "threw", error |-> error]

NoInput == [current |-> "raw", target |-> "raw",
            ctx |-> [hasResearchMd |-> FALSE, hasPlanMd |-> FALSE, prd |-> NullPrd,
                     hasPr |-> FALSE, prMerged |-> FALSE]]

NoResult == [valid |-> FALSE, reason |-> "not applied"]

\* the promise of runAgent before it resolves
NoAgentResult ==
  [status |-> "pending", success |-> FALSE, timedOut |-> FALSE, exitCode |-> NoNumber,
   completionDetected |-> FALSE]

\* no fix applied
NoFix == [fixed |-> FALSE, from |-> Null, to |-> Null]

\* most items under .wreckit, identified 1..MaxItems in the order of their ids
MaxItems == 2

ItemIds == 1..MaxItems

\* no item: itemId null
NoItem == 0

\* no function is applied on its own
NoCall == [fn |-> "none"]

NoOrchestratorOptions == [mode |-> "none", dryRun |-> FALSE]

NoOrchestratorResult ==
  [completed |-> <<>>, failed |-> <<>>, skipped |-> <<>>, remaining |-> <<>>,
   itemId |-> NoItem, success |-> FALSE]

\* neither wreckit (run-all) nor wreckit next is running
OrchestratorIdle ==
  /\ opc = "idle" /\ oOptions = NoOrchestratorOptions /\ oScan = <<>> /\ oQueue = <<>> /\ oI = 0
  /\ oPc = [id \in ItemIds |-> "none"] /\ oStalls = 0 /\ oInvocations = 0
  /\ oResult = NoOrchestratorResult /\ oAttempts = <<>>

NoDoctorOptions == [fix |-> FALSE]

\* wreckit doctor is not running
DoctorIdle ==
  /\ dpc = "idle" /\ dDiagnostics = {} /\ dItem = createItemFromIdea
  /\ dNewState = Null /\ dFix = NoFix
  /\ dOptions = NoDoctorOptions /\ dQueue = <<>> /\ dResults = <<>>

\* no agent process: the locals of runAgent as it declares them
AgentIdle ==
  /\ aWritten = <<>> /\ aOutput = <<>> /\ aCompletion = FALSE /\ aTimedOut = FALSE
  /\ aProc = "none" /\ aExitCode = NoNumber /\ aKilled = FALSE /\ aSignal = "none"
  /\ aTimer = "none" /\ aResult = NoAgentResult

Init ==
  /\ item = createItemFromIdea
  /\ hasResearchMd = FALSE /\ hasPlanMd = FALSE /\ prdFile = PrdAbsent
  /\ branchLocal = FALSE /\ dirty = FALSE /\ remotePr = 0 /\ prMerged = FALSE
  /\ cmd = NoCmd /\ exit = "none" /\ pc = "idle" /\ phase = "none" /\ opts = NoOpts
  /\ mem = createItemFromIdea /\ prd = NullPrd /\ iteration = 0 /\ prResult = NoNumber
  /\ ret = NoRet
  /\ startItem = createItemFromIdea /\ agentCalls = 0 /\ vcsLog = <<>>
  /\ progressAppends = 0 /\ createdOverPr = FALSE /\ mergeQuery = "none" /\ pushExit = "none"
  /\ loopPrev = Null /\ opStart = Null
  /\ vIn = NoInput /\ vOut = NoResult
  /\ aMarker = <<>> /\ aTimeoutSet = FALSE /\ aIgnoresTerm = FALSE /\ aToWrite = <<>>
  /\ AgentIdle
  /\ DoctorIdle /\ dRuns = 0
  /\ promptsDir = TRUE /\ indexJson = "absent"
  /\ OrchestratorIdle /\ oItems = [id \in ItemIds |-> "raw"]
  /\ fIn = NoCall /\ fOut = NoCall

\* ------------------------------------------------- files and item storage
fileExists_prd == prdFile # PrdAbsent

loadPrdSafe(file) == IF file.kind = "valid" THEN file ELSE NullPrd

buildValidationContext(research, plan, file, it) ==
  [hasResearchMd |-> research, hasPlanMd |-> plan, prd |-> loadPrdSafe(file),
   hasPr |-> it.pr_url # NoNumber, prMerged |-> it.state = "done"]

\* the runner returns: its result, and the item it hands back
Return(result, it) ==
  /\ ret' = result
  /\ mem' = it
  /\ pc' = "ret"

\* the command ends and the process exits; locals and histories are dropped
ExitWith(how) ==
  /\ exit' = how
  /\ cmd' = NoCmd /\ pc' = "idle" /\ phase' = "none" /\ opts' = NoOpts
  /\ mem' = createItemFromIdea /\ prd' = NullPrd /\ iteration' = 0 /\ prResult' = NoNumber
  /\ ret' = NoRet
  /\ startItem' = createItemFromIdea /\ agentCalls' = 0 /\ vcsLog' = <<>>
  /\ progressAppends' = 0 /\ createdOverPr' = FALSE /\ mergeQuery' = "none" /\ pushExit' = "none"
  /\ loopPrev' = Null /\ opStart' = Null

\* the command calls a runner: phaseConfig.runFn(itemId, workflowOptions)
CallRunner(p, o) ==
  /\ pc' = "start" /\ phase' = p /\ opts' = o
  /\ mem' = createItemFromIdea /\ prd' = NullPrd /\ iteration' = 0 /\ prResult' = NoNumber
  /\ ret' = NoRet
  /\ startItem' = item /\ agentCalls' = 0 /\ vcsLog' = <<>>
  /\ progressAppends' = 0 /\ createdOverPr' = FALSE /\ mergeQuery' = "none" /\ pushExit' = "none"

\* what the runner leaves alone while it works
callFrame == <<cmd, exit, phase, opts, loopPrev, opStart, vIn, vOut, agentVars, doctorVars, orchVars, fnVars>>

\* saveItem(root, item): the record replaces item.json
saveItem(it) == item' = it

\* item = {...item, last_error: error}; saveItem; return {success: false, item, error}
SaveAndFailItem(loaded, error) ==
  LET it == [loaded EXCEPT !.last_error = error]
  IN  saveItem(it) /\ Return(Failure(error), it)

SaveAndFail(error) == SaveAndFailItem(mem, error)

\* --------------------------------------------------------- agent adapter
\* One run of the external agent, as the runner sees it: the result of
\* runAgent (success needs exit code 0 and the completion marker) and the
\* files the agent process left behind.  The agent is free to write, rewrite
\* or delete any artifact of the item and to touch the working tree.
AgentRuns ==
  [result : {"success", "failure", "timeout"},
   research : BOOLEAN, plan : BOOLEAN, prd : PrdFiles, dirty : BOOLEAN]

AgentError(a) ==
  IF a.result = "timeout" THEN "Agent timed out" ELSE "Agent failed with exit code"

\* runAgent with dryRun = false: the process ran
runAgent(a) ==
  /\ hasResearchMd' = a.research
  /\ hasPlanMd' = a.plan
  /\ prdFile' = a.prd
  /\ dirty' = a.dirty
  /\ agentCalls' = agentCalls + 1

\* runAgent with dryRun = true: nothing is spawned
runAgent_dryRun == UNCHANGED <<hasResearchMd, hasPlanMd, prdFile, dirty, agentCalls>>

\* --------------------------------------------------------- research runner
\* the skip path of runPhaseResearch without its normalisation of raw
runPhaseResearch_start_SkipOnly ==
  /\ pc = "start" /\ phase = "research"
  /\ UNCHANGED <<artifactVars, gitVars, callFrame, prd, iteration, prResult, histVars>>
  /\ IF ~opts.force /\ hasResearchMd
     THEN UNCHANGED item /\ Return(Success, item)
     ELSE IF item.state # "raw" /\ ~opts.force
     THEN UNCHANGED item /\ Return(Failure("Item is in unexpected state"), item)
     ELSE /\ UNCHANGED <<item, ret>>
          /\ mem' = IF opts.force /\ item.state # "raw" THEN [item EXCEPT !.state = "raw"] ELSE item
          /\ pc' = "agent"

\* runPhaseResearch up to its call of runAgent
runPhaseResearch_start ==
  /\ pc = "start" /\ phase = "research"
  /\ UNCHANGED <<artifactVars, gitVars, callFrame, prd, iteration, prResult, histVars>>
  /\ IF ~opts.force /\ hasResearchMd
     THEN LET it == IF item.state = "raw" THEN [item EXCEPT !.state = "researched"] ELSE item
          IN  saveItem(it) /\ Return(Success, it)
     ELSE IF item.state # "raw" /\ ~opts.force
     THEN UNCHANGED item /\ Return(Failure("Item is in unexpected state"), item)
     ELSE /\ UNCHANGED <<item, ret>>
          /\ mem' = IF opts.force /\ item.state # "raw" THEN [item EXCEPT !.state = "raw"] ELSE item
          /\ pc' = "agent"

\* runPhaseResearch from runAgent to its return
runPhaseResearch_agent ==
  /\ pc = "agent" /\ phase = "research"
  /\ UNCHANGED <<branchLocal, remotePr, prMerged, callFrame, prd, iteration, prResult,
                 startItem, vcsLog, progressAppends, createdOverPr, mergeQuery, pushExit>>
  /\ IF opts.dryRun
     THEN runAgent_dryRun /\ UNCHANGED item /\ Return(Success, mem)
     ELSE \E a \in AgentRuns :
            /\ runAgent(a)
            /\ IF a.result # "success" THEN SaveAndFail(AgentError(a))
               ELSE IF ~a.research THEN SaveAndFail("Agent did not create research.md")
               ELSE LET newCtx == buildValidationContext(a.research, a.plan, a.prd, mem)
                        validation == validateTransition(mem.state, "researched", newCtx)
                        it == [mem EXCEPT !.state = "researched", !.last_error = Null]
                    IN  IF ~validation.valid THEN SaveAndFail(validation.reason)
                        ELSE saveItem(it) /\ Return(Success, it)

\* ------------------------------------------------------------- plan runner
runPhasePlan_start ==
  /\ pc = "start" /\ phase = "plan"
  /\ UNCHANGED <<artifactVars, gitVars, callFrame, prd, iteration, prResult, histVars>>
  /\ IF ~opts.force /\ hasPlanMd /\ fileExists_prd
     THEN LET it == IF item.state = "researched" /\ loadPrdSafe(prdFile) # NullPrd
                    THEN [item EXCEPT !.state = "planned"] ELSE item
          IN  saveItem(it) /\ Return(Success, it)
     ELSE IF item.state # "researched" /\ ~opts.force
     THEN UNCHANGED item /\ Return(Failure("Item is in unexpected state"), item)
     ELSE UNCHANGED <<item, ret>> /\ mem' = item /\ pc' = "agent"

runPhasePlan_agent ==
  /\ pc = "agent" /\ phase = "plan"
  /\ UNCHANGED <<branchLocal, remotePr, prMerged, callFrame, prd, iteration, prResult,
                 startItem, vcsLog, progressAppends, createdOverPr, mergeQuery, pushExit>>
  /\ IF opts.dryRun
     THEN runAgent_dryRun /\ UNCHANGED item /\ Return(Success, mem)
     ELSE \E a \in AgentRuns :
            /\ runAgent(a)
            /\ IF a.result # "success" THEN SaveAndFail(AgentError(a))
               ELSE IF ~a.plan THEN SaveAndFail("Agent did not create plan.md")
               ELSE IF a.prd = PrdAbsent THEN SaveAndFail("Agent did not create prd.json")
               ELSE IF loadPrdSafe(a.prd) = NullPrd THEN SaveAndFail("prd.json is not valid JSON or fails schema validation")
               ELSE LET newCtx == buildValidationContext(a.research, a.plan, a.prd, mem)
                        validation == validateTransition(mem.state, "planned", newCtx)
                        it == [mem EXCEPT !.state = "planned", !.last_error = Null]
                    IN  IF ~validation.valid THEN SaveAndFail(validation.reason)
                        ELSE saveItem(it) /\ Return(Success, it)

\* -------------------------------------------------------- implement runner
\* runPhaseImplement up to the loop
runPhaseImplement_start ==
  /\ pc = "start" /\ phase = "implement"
  /\ UNCHANGED <<artifactVars, gitVars, callFrame, iteration, prResult, histVars>>
  /\ IF item.state # "planned" /\ item.state # "implementing" /\ ~opts.force
     THEN UNCHANGED <<item, prd>> /\ Return(Failure("Item is in unexpected state"), item)
     ELSE LET loaded == loadPrdSafe(prdFile)
              it == IF item.state = "planned" THEN [item EXCEPT !.state = "implementing"] ELSE item
          IN  /\ prd' = loaded
              /\ IF loaded = NullPrd
                 THEN SaveAndFailItem(item, "prd.json not found or invalid")
                 ELSE IF allStoriesDone(loaded)
                 THEN UNCHANGED item /\ Return(Success, item)
                 ELSE saveItem(it) /\ mem' = it /\ pc' = "loop" /\ UNCHANGED ret

\* the loop test of runPhaseImplement without its iteration limit
LoopContinues_NoLimit == hasPendingStories(prd)

\* while (hasPendingStories(prd) && iteration < maxIterations)
LoopContinues == hasPendingStories(prd) /\ iteration < MaxIterations

\* one evaluation of the loop test of runPhaseImplement: one iteration, or
\* the code after the loop
runPhaseImplement_loop ==
  /\ pc = "loop" /\ phase = "implement"
  /\ UNCHANGED <<branchLocal, remotePr, prMerged, callFrame, prResult,
                 startItem, vcsLog, createdOverPr, mergeQuery, pushExit>>
  /\ IF LoopContinues
     THEN /\ iteration' = iteration + 1
          /\ IF opts.dryRun
             THEN /\ runAgent_dryRun
                  /\ UNCHANGED <<item, prd, progressAppends>>
                  /\ Return(Success, mem)
             ELSE \E a \in AgentRuns :
                    /\ runAgent(a)
                    /\ IF a.result # "success"
                       THEN /\ UNCHANGED <<prd, progressAppends>>
                            /\ SaveAndFail(AgentError(a))
                       ELSE /\ prd' = loadPrdSafe(a.prd)
                            /\ IF loadPrdSafe(a.prd) = NullPrd
                               THEN /\ UNCHANGED progressAppends
                                    /\ SaveAndFail("prd.json became invalid during implementation")
                               ELSE /\ progressAppends' = progressAppends + 1
                                    /\ UNCHANGED <<item, mem, ret, pc>>
     ELSE /\ UNCHANGED <<artifactVars, dirty, agentCalls, iteration, prd, progressAppends>>
          /\ IF iteration >= MaxIterations /\ hasPendingStories(prd)
             THEN SaveAndFail("Reached max iterations with stories still pending")
             ELSE LET it == [item EXCEPT !.last_error = Null]
                  IN  saveItem(it) /\ Return(Success, it)

\* --------------------------------------------------------------- VCS adapter
\* the pull request gh pr view <branch> reports: none when there is none or
\* when the command exits non-zero
getPrByBranch(exitZero) == IF remotePr > 0 /\ exitZero THEN {remotePr} ELSE NoNumber

\* gh pr view <number> --json state says MERGED: every earlier pull request
\* of the branch is merged, the latest one when prMerged
StateIsMerged(number) == number \subseteq 1..(remotePr - 1) \/ (number = {remotePr} /\ prMerged)

\* the query's exit code taken for its answer
isPrMerged_ExitOnly(number, exitZero) == exitZero /\ number # NoNumber

isPrMerged(number, exitZero) == exitZero /\ number # NoNumber /\ StateIsMerged(number)

\* the hosting service accepts gh pr create only when the branch has no open
\* pull request
CreateAccepted == (remotePr = 0 \/ prMerged) /\ remotePr < MaxPrs

\* --------------------------------------------------------- delivery runner
\* runPhasePr up to its first VCS operation
runPhasePr_start ==
  /\ pc = "start" /\ phase = "pr"
  /\ UNCHANGED <<artifactVars, gitVars, callFrame, iteration, prResult, histVars>>
  /\ IF item.state # "implementing"
     THEN UNCHANGED <<item, prd>> /\ Return(Failure("Item is in unexpected state"), item)
     ELSE LET loaded == loadPrdSafe(prdFile)
          IN  /\ prd' = loaded
              /\ IF ~allStoriesDone(loaded)
                 THEN SaveAndFailItem(item, "Not all stories are done")
                 ELSE UNCHANGED <<item, ret>> /\ mem' = item /\ pc' = "ensureBranch"

\* ensureBranch: switch to the branch when git show-ref finds it, else create
\* it from the base branch; the exit codes of the checkouts are not read
ensureBranch ==
  /\ pc = "ensureBranch" /\ phase = "pr"
  /\ UNCHANGED <<diskVars, dirty, remotePr, prMerged, callFrame, localVars, ret,
                 startItem, agentCalls, progressAppends, createdOverPr, mergeQuery, pushExit>>
  /\ vcsLog' = Append(vcsLog, "ensureBranch")
  /\ IF opts.dryRun \/ branchLocal
     THEN UNCHANGED branchLocal
     ELSE \E created \in BOOLEAN : branchLocal' = created
  /\ pc' = "commit"

\* a clean-tree preflight evaluated where the commit belongs
commitIfDirty_Preflight ==
  /\ pc = "commit" /\ phase = "pr"
  /\ UNCHANGED <<artifactVars, gitVars, callFrame, prd, iteration, prResult,
                 startItem, agentCalls, progressAppends, createdOverPr, mergeQuery, pushExit>>
  /\ vcsLog' = Append(vcsLog, "hasUncommittedChanges")
  /\ IF ~opts.dryRun /\ dirty
     THEN SaveAndFail("Working tree has uncommitted changes")
     ELSE UNCHANGED <<item, mem, ret>> /\ pc' = "push"

\* if (await hasUncommittedChanges(gitOptions)) await commitAll(...); the
\* exit codes of git add and git commit are not read
commitIfDirty ==
  /\ pc = "commit" /\ phase = "pr"
  /\ UNCHANGED <<diskVars, branchLocal, remotePr, prMerged, callFrame, localVars, ret,
                 startItem, agentCalls, progressAppends, createdOverPr, mergeQuery, pushExit>>
  /\ IF ~opts.dryRun /\ dirty
     THEN /\ vcsLog' = vcsLog \o <<"hasUncommittedChanges", "commitAll">>
          /\ \E committed \in BOOLEAN : dirty' = ~committed
     ELSE /\ vcsLog' = Append(vcsLog, "hasUncommittedChanges")
          /\ UNCHANGED dirty
  /\ pc' = "push"

\* pushBranch: git push -u origin <branch>; its exit code is not read
pushBranch ==
  /\ pc = "push" /\ phase = "pr"
  /\ UNCHANGED <<diskVars, gitVars, callFrame, localVars, ret,
                 startItem, agentCalls, progressAppends, createdOverPr, mergeQuery>>
  /\ vcsLog' = Append(vcsLog, "pushBranch")
  /\ IF opts.dryRun
     THEN UNCHANGED pushExit
     ELSE \E exitZero \in BOOLEAN : pushExit' = IF exitZero THEN "zero" ELSE "nonzero"
  /\ pc' = "createOrUpdatePr"

\* createOrUpdatePr: look the branch's pull request up; edit it when found,
\* else create one and look it up again
createOrUpdatePr ==
  /\ pc = "createOrUpdatePr" /\ phase = "pr"
  /\ UNCHANGED <<diskVars, branchLocal, dirty, callFrame, prd, iteration,
                 startItem, agentCalls, progressAppends, mergeQuery, pushExit>>
  /\ vcsLog' = Append(vcsLog, "createOrUpdatePr")
  /\ IF opts.dryRun
     THEN /\ prResult' = {0}
          /\ pc' = "persist"
          /\ UNCHANGED <<remotePr, prMerged, createdOverPr, mem, ret>>
     ELSE \E viewExitZero \in BOOLEAN, createExitZero \in BOOLEAN, view2ExitZero \in BOOLEAN :
            LET existing == getPrByBranch(viewExitZero)
            IN  IF existing # NoNumber
                THEN /\ prResult' = existing
                     /\ pc' = "persist"
                     /\ UNCHANGED <<remotePr, prMerged, createdOverPr, mem, ret>>
                ELSE /\ createdOverPr' = (remotePr > 0)
                     /\ IF ~(createExitZero /\ CreateAccepted)
                        THEN /\ UNCHANGED <<remotePr, prMerged, prResult>>
                             /\ Return(Threw("Failed to create PR"), mem)
                        ELSE /\ remotePr' = remotePr + 1
                             /\ prMerged' = FALSE
                             /\ IF ~view2ExitZero
                                THEN /\ UNCHANGED prResult
                                     /\ Return(Threw("PR was created but could not retrieve its info"), mem)
                                ELSE /\ prResult' = {remotePr + 1}
                                     /\ pc' = "persist"
                                     /\ UNCHANGED <<mem, ret>>

\* a delivery that records the state without the branch and the pull request
persistInPr_StateOnly ==
  /\ pc = "persist" /\ phase = "pr"
  /\ UNCHANGED <<artifactVars, gitVars, callFrame, prd, iteration, prResult,
                 startItem, agentCalls, progressAppends, createdOverPr, mergeQuery, pushExit>>
  /\ vcsLog' = Append(vcsLog, "saveItem")
  /\ LET it == [mem EXCEPT !.state = "in_pr", !.last_error = Null]
     IN  saveItem(it) /\ Return(Success, it)

\* item = {...item, state: "in_pr", branch, pr_url, pr_number, last_error: null}; saveItem
persistInPr ==
  /\ pc = "persist" /\ phase = "pr"
  /\ UNCHANGED <<artifactVars, gitVars, callFrame, prd, iteration, prResult,
                 startItem, agentCalls, progressAppends, createdOverPr, mergeQuery, pushExit>>
  /\ vcsLog' = Append(vcsLog, "saveItem")
  /\ LET it == [mem EXCEPT !.state = "in_pr", !.branch = BranchName, !.pr_url = prResult,
                           !.pr_number = prResult, !.last_error = Null]
     IN  saveItem(it) /\ Return(Success, it)

\* --------------------------------------------------------- complete runner
runPhaseComplete_start ==
  /\ pc = "start" /\ phase = "complete"
  /\ UNCHANGED <<diskVars, gitVars, callFrame, prd, iteration, prResult, histVars>>
  /\ IF item.state # "in_pr"
     THEN Return(Failure("Item is in unexpected state"), item)
     ELSE IF opts.dryRun
     THEN Return(Success, item)
     ELSE IF item.pr_number = NoNumber
     THEN Return(Failure("Item has no PR number"), item)
     ELSE UNCHANGED ret /\ mem' = item /\ pc' = "isPrMerged"

\* prMerged = await isPrMerged(item.pr_number); done is saved only when merged
runPhaseComplete_query ==
  /\ pc = "isPrMerged" /\ phase = "complete"
  /\ UNCHANGED <<artifactVars, gitVars, callFrame, prd, iteration, prResult,
                 startItem, agentCalls, vcsLog, progressAppends, createdOverPr, pushExit>>
  /\ \E exitZero \in BOOLEAN :
       LET merged == isPrMerged(mem.pr_number, exitZero)
           it == [mem EXCEPT !.state = "done", !.last_error = Null]
       IN  /\ mergeQuery' = IF merged THEN "merged" ELSE "not merged"
           /\ IF ~merged
              THEN UNCHANGED item /\ Return(Failure("PR not merged yet"), mem)
              ELSE saveItem(it) /\ Return(Success, it)

\* the pull request is merged on the hosting service
MergePr ==
  /\ remotePr > 0 /\ ~prMerged
  /\ prMerged' = TRUE
  /\ UNCHANGED <<diskVars, branchLocal, dirty, remotePr, cmd, exit, pc, phase, opts,
                 localVars, ret, histVars, loopPrev, opStart, vIn, vOut, agentVars, doctorVars, orchVars, fnVars>>

\* ------------------------------------------------------------ CLI commands
Phases == {"research", "plan", "implement", "pr", "complete"}

PHASE_CONFIG ==
  [p \in Phases |->
     CASE p = "research"  -> [requiredState |-> {"raw"}, targetState |-> "researched", skipIfInTarget |-> TRUE]
       [] p = "plan"      -> [requiredState |-> {"researched"}, targetState |-> "planned", skipIfInTarget |-> TRUE]
       [] p = "implement" -> [requiredState |-> {"planned", "implementing"}, targetState |-> "implementing", skipIfInTarget |-> FALSE]
       [] p = "pr"        -> [requiredState |-> {"implementing"}, targetState |-> "in_pr", skipIfInTarget |-> TRUE]
       [] p = "complete"  -> [requiredState |-> {"in_pr"}, targetState |-> "done", skipIfInTarget |-> TRUE]]

isInRequiredState(currentState, required) == currentState \in required

isInTargetState(currentState, targetState) == currentState = targetState

\* the gate of the phase commands without its test of the state order
isInvalidTransition_DoneOnly(p, currentState) == currentState = "done" /\ p # "complete"

isInvalidTransition(p, currentState) ==
  LET currentIndex == getStateIndex(currentState)
      targetIndex == getStateIndex(PHASE_CONFIG[p].targetState)
  IN  IF currentState = "done" /\ p # "complete" THEN TRUE
      ELSE IF currentIndex > targetIndex THEN TRUE
      ELSE FALSE

\* wreckit research|plan|implement|pr|complete <id> [--force] [--dry-run]:
\* runPhaseCommand up to its call of the runner (complete has no --force)
runPhaseCommand ==
  /\ pc = "idle"
  /\ UNCHANGED <<diskVars, gitVars, vIn, vOut, agentVars, doctorVars, orchVars, fnVars>>
  /\ \E p \in Phases, force \in BOOLEAN, dryRun \in BOOLEAN :
       /\ p = "complete" => ~force
       /\ LET phaseConfig == PHASE_CONFIG[p]
          IN  IF isInvalidTransition(p, item.state)
              THEN ExitWith("error")
              ELSE IF ~force /\ phaseConfig.skipIfInTarget /\ isInTargetState(item.state, phaseConfig.targetState)
              THEN ExitWith("ok")
              ELSE IF ~force /\ ~isInRequiredState(item.state, phaseConfig.requiredState)
                             /\ ~isInTargetState(item.state, phaseConfig.targetState)
              THEN ExitWith("error")
              ELSE IF dryRun
              THEN ExitWith("ok")
              ELSE /\ cmd' = [name |-> "phase", force |-> force, dryRun |-> dryRun]
                   /\ exit' = "none"
                   /\ loopPrev' = Null /\ opStart' = item.state
                   /\ CallRunner(p, [force |-> force, dryRun |-> dryRun])

getNextPhase(it) ==
  CASE it.state = "raw"          -> "research"
    [] it.state = "researched"   -> "plan"
    [] it.state = "planned"      -> "implement"
    [] it.state = "implementing" -> "pr"
    [] it.state = "in_pr"        -> "complete"
    [] OTHER                     -> Null

phaseArtifactsExist(p) ==
  CASE p = "research" -> hasResearchMd
    [] p = "plan"     -> hasPlanMd /\ fileExists_prd
    [] OTHER          -> FALSE

\* wreckit run <id> [--force] [--dry-run]: runCommand of commands/run.ts up to its loop
runCommand_entry ==
  /\ pc = "idle"
  /\ UNCHANGED <<diskVars, gitVars, vIn, vOut, agentVars, doctorVars, orchVars, fnVars>>
  /\ \E force \in BOOLEAN, dryRun \in BOOLEAN :
       IF item.state = "done"
       THEN ExitWith("ok")
       ELSE /\ cmd' = [name |-> "run", force |-> force, dryRun |-> dryRun]
            /\ exit' = "none"
            /\ pc' = "run"
            /\ UNCHANGED <<phase, opts, localVars, ret, histVars, loopPrev>>
            /\ opStart' = item.state

\* one pass through the head of the while (true) loop of runCommand
runCommand_loop ==
  /\ pc = "run" /\ cmd.name = "run"
  /\ UNCHANGED <<diskVars, gitVars, vIn, vOut, agentVars, doctorVars, orchVars, fnVars>>
  /\ LET nextPhase == getNextPhase(item)
     IN  IF item.state = "done" \/ nextPhase = Null
         THEN ExitWith("ok")
         ELSE IF ~cmd.force /\ phaseArtifactsExist(nextPhase)
         THEN /\ UNCHANGED <<cmd, exit>>
              /\ loopPrev' = item.state /\ UNCHANGED opStart
              /\ CallRunner(nextPhase, [force |-> FALSE, dryRun |-> cmd.dryRun])
         ELSE IF cmd.dryRun
         THEN ExitWith("ok")
         ELSE /\ UNCHANGED <<cmd, exit>>
              /\ loopPrev' = item.state /\ UNCHANGED opStart
              /\ CallRunner(nextPhase, [force |-> cmd.force, dryRun |-> cmd.dryRun])

\* the runner's promise resolves in the command that awaits it
runnerReturns ==
  /\ pc = "ret"
  /\ UNCHANGED <<diskVars, gitVars, vIn, vOut, agentVars, doctorVars, orchVars, fnVars>>
  /\ IF cmd.name = "run" /\ ret.status = "success"
     THEN /\ pc' = "run"
          /\ UNCHANGED <<cmd, exit, loopPrev, opStart>>
          /\ phase' = "none" /\ opts' = NoOpts
          /\ mem' = createItemFromIdea /\ prd' = NullPrd /\ iteration' = 0 /\ prResult' = NoNumber
          /\ ret' = NoRet
          /\ startItem' = createItemFromIdea /\ agentCalls' = 0 /\ vcsLog' = <<>>
          /\ progressAppends' = 0 /\ createdOverPr' = FALSE /\ mergeQuery' = "none" /\ pushExit' = "none"
     ELSE ExitWith(IF ret.status = "success" THEN "ok" ELSE "error")

\* ----------------------------------------------------------- specification
Next ==
  \/ runPhaseCommand
  \/ runCommand_entry
  \/ runCommand_loop
  \/ runnerReturns
  \/ runPhaseResearch_start
  \/ runPhaseResearch_agent
  \/ runPhasePlan_start
  \/ runPhasePlan_agent
  \/ runPhaseImplement_start
  \/ runPhaseImplement_loop
  \/ runPhasePr_start
  \/ ensureBranch
  \/ commitIfDirty
  \/ pushBranch
  \/ createOrUpdatePr
  \/ persistInPr
  \/ runPhaseComplete_start
  \/ runPhaseComplete_query
  \/ MergePr

Spec == Init /\ [][Next]_vars

\* the commands of which none exits on a failure: every runner called has
\* returned success: true, and no command was refused
NextSuccessful ==
  \/ runPhaseCommand /\ exit' # "error"
  \/ runCommand_entry /\ exit' # "error"
  \/ runCommand_loop /\ exit' # "error"
  \/ runnerReturns /\ exit' # "error"
  \/ runPhaseResearch_start /\ exit' # "error"
  \/ runPhaseResearch_agent /\ exit' # "error"
  \/ runPhasePlan_start /\ exit' # "error"
  \/ runPhasePlan_agent /\ exit' # "error"
  \/ runPhaseImplement_start /\ exit' # "error"
  \/ runPhaseImplement_loop /\ exit' # "error"
  \/ runPhasePr_start /\ exit' # "error"
  \/ ensureBranch /\ exit' # "error"
  \/ commitIfDirty /\ exit' # "error"
  \/ pushBranch /\ exit' # "error"
  \/ createOrUpdatePr /\ exit' # "error"
  \/ persistInPr /\ exit' # "error"
  \/ runPhaseComplete_start /\ exit' # "error"
  \/ runPhaseComplete_query /\ exit' # "error"
  \/ MergePr /\ exit' # "error"

SpecSuccessful == Init /\ [][NextSuccessful]_vars

\* ------------------------------------------- validateTransition on its own
ValidationInputs == [current : WorkflowState, target : WorkflowState, ctx : ValidationContexts]

InitValidate ==
  /\ item = createItemFromIdea
  /\ hasResearchMd = FALSE /\ hasPlanMd = FALSE /\ prdFile = PrdAbsent
  /\ branchLocal = FALSE /\ dirty = FALSE /\ remotePr = 0 /\ prMerged = FALSE
  /\ cmd = NoCmd /\ exit = "none" /\ pc = "idle" /\ phase = "none" /\ opts = NoOpts
  /\ mem = createItemFromIdea /\ prd = NullPrd /\ iteration = 0 /\ prResult = NoNumber
  /\ ret = NoRet
  /\ startItem = createItemFromIdea /\ agentCalls = 0 /\ vcsLog = <<>>
  /\ progressAppends = 0 /\ createdOverPr = FALSE /\ mergeQuery = "none" /\ pushExit = "none"
  /\ loopPrev = Null /\ opStart = Null
  /\ vIn \in ValidationInputs /\ vOut = NoResult
  /\ aMarker = <<>> /\ aTimeoutSet = FALSE /\ aIgnoresTerm = FALSE /\ aToWrite = <<>>
  /\ AgentIdle
  /\ DoctorIdle /\ dRuns = 0
  /\ promptsDir = TRUE /\ indexJson = "absent"
  /\ OrchestratorIdle /\ oItems = [id \in ItemIds |-> "raw"]
  /\ fIn = NoCall /\ fOut = NoCall

Validate ==
  /\ vOut = NoResult
  /\ vOut' = validateTransition(vIn.current, vIn.target, vIn.ctx)
  /\ UNCHANGED <<diskVars, gitVars, cmd, exit, pc, phase, opts, localVars, ret, histVars,
                 loopPrev, opStart, vIn, agentVars, doctorVars, orchVars, fnVars>>

NextValidate == Validate

SpecValidate == InitValidate /\ [][NextValidate]_vars

\* the steps of a command in progress: everything but the start of a new
\* command and the hosting service.  The event loop runs a pending
\* continuation whenever there is one.
ProgramStep ==
  \/ runCommand_loop
  \/ runnerReturns
  \/ runPhaseResearch_start
  \/ runPhaseResearch_agent
  \/ runPhasePlan_start
  \/ runPhasePlan_agent
  \/ runPhaseImplement_start
  \/ runPhaseImplement_loop
  \/ runPhasePr_start
  \/ ensureBranch
  \/ commitIfDirty
  \/ pushBranch
  \/ createOrUpdatePr
  \/ persistInPr
  \/ runPhaseComplete_start
  \/ runPhaseComplete_query

FairSpec == Init /\ [][Next]_vars /\ WF_vars(ProgramStep)

\* ------------------------------------------- the agent adapter on its own
\* runAgent with dryRun = false, one child process: its output arrives at the
\* data handlers in chunks of bytes, each chunk is decoded on its own by
\* data.toString(), and the promise resolves in the close handler.

\* most bytes the agent process writes
MaxOutput == 3
\* most characters of config.agent.completion_signal
MaxMarker == 2

\* "a" is an ASCII byte; "L" and "T" are the lead byte and the continuation
\* byte of a two-byte UTF-8 character
Bytes == {"a", "L", "T"}

\* the characters a string holds: "a", the two-byte character "E" and the
\* replacement character U+FFFD that decoding puts for a malformed byte
ReplacementChar == "?"

MarkerChars == {"a", "E"}

SeqsUpTo(S, n) == UNION {[1..k -> S] : k \in 0..n}

\* the completion markers: strings of at least one character
Markers == SeqsUpTo(MarkerChars, MaxMarker) \ {<<>>}

\* Buffer.prototype.toString(): UTF-8 decoding of one chunk on its own
RECURSIVE toString(_)
toString(bs) ==
  IF bs = <<>> THEN <<>>
  ELSE IF Head(bs) = "L"
  THEN IF Len(bs) >= 2 /\ bs[2] = "T"
       THEN <<"E">> \o toString(SubSeq(bs, 3, Len(bs)))
       ELSE <<ReplacementChar>> \o toString(Tail(bs))
  ELSE IF Head(bs) = "T" THEN <<ReplacementChar>> \o toString(Tail(bs))
  ELSE <<Head(bs)>> \o toString(Tail(bs))

\* String.prototype.includes
includes(s, m) == \E i \in 0..(Len(s) - Len(m)) : SubSeq(s, i + 1, i + Len(m)) = m

lifecycleVars == <<diskVars, gitVars, cmd, exit, pc, phase, opts, localVars, ret, histVars,
                   loopPrev, opStart, vIn, vOut, doctorVars, orchVars, fnVars>>

agentConfig == <<aMarker, aTimeoutSet, aIgnoresTerm>>

InitAgent ==
  /\ item = createItemFromIdea
  /\ hasResearchMd = FALSE /\ hasPlanMd = FALSE /\ prdFile = PrdAbsent
  /\ branchLocal = FALSE /\ dirty = FALSE /\ remotePr = 0 /\ prMerged = FALSE
  /\ cmd = NoCmd /\ exit = "none" /\ pc = "idle" /\ phase = "none" /\ opts = NoOpts
  /\ mem = createItemFromIdea /\ prd = NullPrd /\ iteration = 0 /\ prResult = NoNumber
  /\ ret = NoRet
  /\ startItem = createItemFromIdea /\ agentCalls = 0 /\ vcsLog = <<>>
  /\ progressAppends = 0 /\ createdOverPr = FALSE /\ mergeQuery = "none" /\ pushExit = "none"
  /\ loopPrev = Null /\ opStart = Null
  /\ vIn = NoInput /\ vOut = NoResult
  /\ aMarker \in Markers
  /\ aTimeoutSet \in BOOLEAN /\ aIgnoresTerm \in BOOLEAN
  /\ aToWrite \in SeqsUpTo(Bytes, MaxOutput)
  /\ AgentIdle
  /\ DoctorIdle /\ dRuns = 0
  /\ promptsDir = TRUE /\ indexJson = "absent"
  /\ OrchestratorIdle /\ oItems = [id \in ItemIds |-> "raw"]
  /\ fIn = NoCall /\ fOut = NoCall

AgentFailed ==
  [status |-> "resolved", success |-> FALSE, timedOut |-> FALSE, exitCode |-> NoNumber,
   completionDetected |-> FALSE]

\* child = spawn(...): it throws, or the child exists and the timeout timer
\* is started when timeout_seconds > 0
spawnAgent ==
  /\ aProc = "none" /\ aResult = NoAgentResult
  /\ \E threw \in BOOLEAN :
       IF threw
       THEN aProc' = "failed" /\ aResult' = AgentFailed /\ UNCHANGED aTimer
       ELSE /\ aProc' = "running"
            /\ aTimer' = IF aTimeoutSet THEN "armed" ELSE "none"
            /\ UNCHANGED aResult
  /\ UNCHANGED <<lifecycleVars, agentConfig, aToWrite, aWritten, aOutput, aCompletion,
                 aTimedOut, aExitCode, aKilled, aSignal>>

\* child.on("error"): the process could not be started
onError ==
  /\ aProc = "running" /\ aWritten = <<>> /\ ~aKilled /\ aTimer \in {"none", "armed"}
  /\ aProc' = "failed"
  /\ aTimer' = IF aTimer = "armed" THEN "cleared" ELSE aTimer
  /\ aResult' = AgentFailed
  /\ UNCHANGED <<lifecycleVars, agentConfig, aToWrite, aWritten, aOutput, aCompletion,
                 aTimedOut, aExitCode, aKilled, aSignal>>

\* child.stdout.on("data") and child.stderr.on("data"): the next chunk, of
\* any length, is decoded, appended to output, and output is searched
onData ==
  /\ aProc \in {"running", "exited"} /\ aToWrite # <<>>
  /\ \E k \in 1..Len(aToWrite) :
       LET data == SubSeq(aToWrite, 1, k)
           chunk == toString(data)
           out == aOutput \o chunk
       IN  /\ aOutput' = out
           /\ aCompletion' = IF includes(out, aMarker) THEN TRUE ELSE aCompletion
           /\ aWritten' = aWritten \o data
           /\ aToWrite' = SubSeq(aToWrite, k + 1, Len(aToWrite))
  /\ UNCHANGED <<lifecycleVars, agentConfig, aTimedOut, aProc, aExitCode, aKilled, aSignal,
                 aTimer, aResult>>

\* the agent process exits of its own accord
processExits ==
  /\ aProc = "running"
  /\ aProc' = "exited"
  /\ \E code \in {0, 1} : aExitCode' = {code}
  /\ UNCHANGED <<lifecycleVars, agentConfig, aToWrite, aWritten, aOutput, aCompletion,
                 aTimedOut, aKilled, aSignal, aTimer, aResult>>

\* the operating system acts on a signal sent to the process: SIGKILL ends
\* it, SIGTERM ends it unless the process ignores SIGTERM
signalDelivered ==
  /\ aProc = "running" /\ aSignal # "none"
  /\ aSignal' = "none"
  /\ IF aSignal = "SIGKILL" \/ ~aIgnoresTerm
     THEN aProc' = "exited" /\ aExitCode' = NoNumber
     ELSE UNCHANGED <<aProc, aExitCode>>
  /\ UNCHANGED <<lifecycleVars, agentConfig, aToWrite, aWritten, aOutput, aCompletion,
                 aTimedOut, aKilled, aTimer, aResult>>

\* child.kill(signal): the signal is sent and child.killed is set when the
\* process has not exited; child.killed says the signal was sent, not that
\* the process ended
kill(signal) ==
  IF aProc = "running"
  THEN aSignal' = signal /\ aKilled' = TRUE
  ELSE UNCHANGED <<aSignal, aKilled>>

\* the timeout callback: timedOut = true; child.kill("SIGTERM"); start the
\* five-second grace timer
timeoutFires ==
  /\ aTimer = "armed"
  /\ aTimedOut' = TRUE
  /\ kill("SIGTERM")
  /\ aTimer' = "grace"
  /\ UNCHANGED <<lifecycleVars, agentConfig, aToWrite, aWritten, aOutput, aCompletion,
                 aProc, aExitCode, aResult>>

\* the grace callback: if (!child.killed) child.kill("SIGKILL")
graceFires ==
  /\ aTimer = "grace"
  /\ IF ~aKilled THEN kill("SIGKILL") ELSE UNCHANGED <<aSignal, aKilled>>
  /\ aTimer' = "done"
  /\ UNCHANGED <<lifecycleVars, agentConfig, aToWrite, aWritten, aOutput, aCompletion,
                 aTimedOut, aProc, aExitCode, aResult>>

\* child.on("close"): the process has exited and its streams have ended
onClose ==
  /\ aProc = "exited" /\ aToWrite = <<>>
  /\ aProc' = "closed"
  /\ aTimer' = IF aTimer = "armed" THEN "cleared" ELSE aTimer
  /\ aResult' = IF aResult # NoAgentResult THEN aResult
                ELSE [status |-> "resolved",
                      success |-> (aExitCode = {0} /\ aCompletion),
                      timedOut |-> aTimedOut,
                      exitCode |-> aExitCode,
                      completionDetected |-> aCompletion]
  /\ UNCHANGED <<lifecycleVars, agentConfig, aToWrite, aWritten, aOutput, aCompletion,
                 aTimedOut, aExitCode, aKilled, aSignal>>

NextAgent ==
  \/ spawnAgent
  \/ onError
  \/ onData
  \/ processExits
  \/ signalDelivered
  \/ timeoutFires
  \/ graceFires
  \/ onClose

SpecAgent == InitAgent /\ [][NextAgent]_vars

\* what happens without the agent process choosing it: the event loop runs
\* the handlers and the timers that are due, and the operating system acts
\* on a signal it was given
AgentStep ==
  \/ spawnAgent
  \/ onData
  \/ signalDelivered
  \/ timeoutFires
  \/ graceFires
  \/ onClose

FairSpecAgent == InitAgent /\ [][NextAgent]_vars /\ WF_vars(AgentStep)

\* ------------------------------------------------ diagnostics (doctor.ts)
\* most runs of wreckit doctor in one behaviour
MaxDoctorRuns == 1

Diagnostic(severity, code, message, fixable) ==
  [severity |-> severity, code |-> code, message |-> message, fixable |-> fixable]

\* a diagnoseItem that looks at the artifacts of researched and planned items only
diagnoseItem_NoStoryCheck(it, hasResearch, hasPlan, file) ==
  (IF it.state = "researched" /\ ~hasResearch
   THEN {Diagnostic("warning", "STATE_FILE_MISMATCH", "researched but research.md is missing", TRUE)}
   ELSE {})
  \cup
  (IF it.state = "planned" /\ (~hasPlan \/ file = PrdAbsent)
   THEN {Diagnostic("warning", "STATE_FILE_MISMATCH", "planned but plan.md or prd.json is missing",
                    ~hasPlan /\ file = PrdAbsent)}
   ELSE {})

\* diagnoseItem for an item whose item.json is readable
diagnoseItem(it, hasResearch, hasPlan, file) ==
  LET hasPrd == file # PrdAbsent
  IN  (IF it.state = "researched" /\ ~hasResearch
       THEN {Diagnostic("warning", "STATE_FILE_MISMATCH", "researched but research.md is missing", TRUE)}
       ELSE {})
      \cup
      (IF it.state # "planned" THEN {}
       ELSE IF ~hasPlan /\ ~hasPrd
       THEN {Diagnostic("warning", "STATE_FILE_MISMATCH", "planned but plan.md and prd.json are missing", TRUE)}
       ELSE IF ~hasPlan
       THEN {Diagnostic("warning", "STATE_FILE_MISMATCH", "planned but plan.md is missing", FALSE)}
       ELSE IF ~hasPrd
       THEN {Diagnostic("warning", "STATE_FILE_MISMATCH", "planned but prd.json is missing", FALSE)}
       ELSE {})
      \cup
      (IF ~hasPrd THEN {}
       ELSE IF file.kind # "valid"
       THEN {Diagnostic("error", "INVALID_PRD", "prd.json is invalid", FALSE)}
       ELSE IF it.state = "implementing" /\ ~hasPendingStories(file)
       THEN {Diagnostic("warning", "STATE_FILE_MISMATCH", "implementing but no pending stories in prd.json", FALSE)}
       ELSE {})
      \cup
      (IF it.state = "in_pr" /\ it.pr_url = NoNumber
       THEN {Diagnostic("warning", "STATE_FILE_MISMATCH", "in_pr but pr_url is not set", FALSE)}
       ELSE {})

\* a repair that takes a researched item without research.md forward
repairedState_Forward(it, hasResearch, hasPlan, hasPrd) ==
  IF it.state = "researched" /\ ~hasResearch THEN "planned" ELSE it.state

\* newState of applyFixes, case STATE_FILE_MISMATCH
repairedState(it, hasResearch, hasPlan, hasPrd) ==
  IF it.state = "researched" /\ ~hasResearch THEN "raw"
  ELSE IF it.state = "planned" /\ (~hasPlan \/ ~hasPrd) /\ hasResearch THEN "researched"
  ELSE IF it.state = "planned" /\ ~hasPlan /\ ~hasPrd
  THEN IF hasResearch THEN "researched" ELSE "raw"
  ELSE it.state

\* diagnosePrompts
diagnosePrompts(dir) ==
  IF ~dir
  THEN {Diagnostic("info", "MISSING_PROMPTS", "prompts directory is missing (defaults will be used)", TRUE)}
  ELSE {}

IndexFiles == {"absent", "in sync", "stale"}

\* diagnoseIndex: an index that is invalid or out of sync with the items
diagnoseIndex(index) ==
  IF index = "stale"
  THEN {Diagnostic("warning", "INDEX_STALE", "index.json is out of sync", TRUE)}
  ELSE {}

\* diagnose, for a repository with a valid config.json and one item
diagnose ==
  diagnosePrompts(promptsDir) \cup diagnoseItem(item, hasResearchMd, hasPlanMd, prdFile)
    \cup diagnoseIndex(indexJson)

fixableOf(diagnostics, code) ==
  IF \E d \in diagnostics : d.fixable /\ d.code = code
  THEN <<CHOOSE d \in diagnostics : d.fixable /\ d.code = code>>
  ELSE <<>>

\* diagnostics.filter((d) => d.fixable), in the order diagnose pushes them:
\* prompts, items, index
fixableDiagnostics(diagnostics) ==
  fixableOf(diagnostics, "MISSING_PROMPTS") \o fixableOf(diagnostics, "STATE_FILE_MISMATCH")
    \o fixableOf(diagnostics, "INDEX_STALE")

\* a loop over the fixable diagnostics that ends at the first failed repair
afterRepair_StopOnFailure(fixed, rest) ==
  IF rest = <<>> \/ ~fixed THEN "report" ELSE "applyFixes"

\* the for loop of applyFixes goes on to the next fixable diagnostic
afterRepair(fixed, rest) ==
  IF rest = <<>> THEN "report" ELSE "applyFixes"

\* results.push({ diagnostic, fixed, message }) and the next turn of the loop
pushResult(fixed, message) ==
  /\ dResults' = Append(dResults, [diagnostic |-> Head(dQueue), fixed |-> fixed, message |-> message])
  /\ dQueue' = Tail(dQueue)
  /\ dpc' = afterRepair(fixed, Tail(dQueue))

doctorFrame == <<artifactVars, gitVars, cmd, exit, pc, phase, opts, localVars, ret, histVars,
                 loopPrev, opStart, vIn, vOut, agentVars, orchVars, fnVars>>

\* wreckit doctor [--fix]: runDoctor up to the loop of applyFixes
doctor_diagnose ==
  /\ dpc = "idle"
  /\ dRuns < MaxDoctorRuns
  /\ dRuns' = dRuns + 1
  /\ \E fix \in BOOLEAN :
       /\ dOptions' = [fix |-> fix]
       /\ dDiagnostics' = diagnose
       /\ dQueue' = IF fix THEN fixableDiagnostics(diagnose) ELSE <<>>
       /\ dpc' = IF fix /\ fixableDiagnostics(diagnose) # <<>> THEN "applyFixes" ELSE "report"
  /\ dResults' = <<>>
  /\ UNCHANGED <<item, dItem, dNewState, dFix, promptsDir, indexJson, doctorFrame>>

\* applyFixes, case MISSING_PROMPTS: initPromptTemplates creates the directory
\* or throws
doctor_fixPrompts ==
  /\ dpc = "applyFixes" /\ Head(dQueue).code = "MISSING_PROMPTS"
  /\ \E ok \in BOOLEAN :
       IF ok
       THEN promptsDir' = TRUE /\ pushResult(TRUE, "Created default prompt templates")
       ELSE UNCHANGED promptsDir /\ pushResult(FALSE, "Failed to create prompts")
  /\ UNCHANGED <<item, dDiagnostics, dItem, dNewState, dFix, dRuns, dOptions, indexJson, doctorFrame>>

\* applyFixes, case STATE_FILE_MISMATCH, up to its write: item.json and the
\* artifacts are read again and newState is computed, or the read throws
doctor_read ==
  /\ dpc = "applyFixes" /\ Head(dQueue).code = "STATE_FILE_MISMATCH"
  /\ \E ok \in BOOLEAN :
       IF ok
       THEN /\ dItem' = item
            /\ dNewState' = repairedState(item, hasResearchMd, hasPlanMd, fileExists_prd)
            /\ dpc' = "write"
            /\ UNCHANGED <<dQueue, dResults>>
       ELSE /\ pushResult(FALSE, "Failed to fix state")
            /\ UNCHANGED <<dItem, dNewState>>
  /\ UNCHANGED <<item, dDiagnostics, dFix, dRuns, dOptions, promptsDir, indexJson, doctorFrame>>

\* applyFixes, case STATE_FILE_MISMATCH: the item it read is written back with
\* newState, when that differs from the state it read; the write may throw
doctor_write ==
  /\ dpc = "write"
  /\ IF dNewState # dItem.state
     THEN \E ok \in BOOLEAN :
            IF ok
            THEN /\ item' = [dItem EXCEPT !.state = dNewState]
                 /\ dFix' = [fixed |-> TRUE, from |-> dItem.state, to |-> dNewState]
                 /\ indexJson' = IF indexJson = "in sync" THEN "stale" ELSE indexJson
                 /\ pushResult(TRUE, "Reset state")
            ELSE /\ UNCHANGED <<item, dFix, indexJson>>
                 /\ pushResult(FALSE, "Failed to fix state")
     ELSE /\ UNCHANGED <<item, dFix, indexJson>>
          /\ pushResult(FALSE, "Unable to determine correct state")
  /\ UNCHANGED <<dDiagnostics, dItem, dNewState, dRuns, dOptions, promptsDir, doctorFrame>>

\* applyFixes, case INDEX_STALE: the index is rebuilt from scanItems, or the
\* write throws
doctor_fixIndex ==
  /\ dpc = "applyFixes" /\ Head(dQueue).code = "INDEX_STALE"
  /\ \E ok \in BOOLEAN :
       IF ok
       THEN indexJson' = "in sync" /\ pushResult(TRUE, "Rebuilt index.json")
       ELSE UNCHANGED indexJson /\ pushResult(FALSE, "Failed to rebuild index")
  /\ UNCHANGED <<item, dDiagnostics, dItem, dNewState, dFix, dRuns, dOptions, promptsDir, doctorFrame>>

\* doctorCommand prints the diagnostics and the fixes, and the process exits
doctor_exit ==
  /\ dpc = "report"
  /\ dpc' = "idle" /\ dDiagnostics' = {} /\ dItem' = createItemFromIdea
  /\ dNewState' = Null /\ dFix' = NoFix
  /\ dOptions' = NoDoctorOptions /\ dQueue' = <<>> /\ dResults' = <<>>
  /\ UNCHANGED <<item, dRuns, promptsDir, indexJson, doctorFrame>>

NextDoctor ==
  \/ doctor_diagnose
  \/ doctor_fixPrompts
  \/ doctor_read
  \/ doctor_write
  \/ doctor_fixIndex
  \/ doctor_exit

\* the doctor on its own, on any item record over any artifacts
InitDoctor ==
  /\ \E state \in WorkflowState, pr \in {NoNumber, {1}} :
       item = [createItemFromIdea EXCEPT !.state = state, !.pr_url = pr, !.pr_number = pr]
  /\ hasResearchMd \in BOOLEAN /\ hasPlanMd \in BOOLEAN /\ prdFile \in PrdFiles
  /\ branchLocal = FALSE /\ dirty = FALSE /\ remotePr = 0 /\ prMerged = FALSE
  /\ cmd = NoCmd /\ exit = "none" /\ pc = "idle" /\ phase = "none" /\ opts = NoOpts
  /\ mem = createItemFromIdea /\ prd = NullPrd /\ iteration = 0 /\ prResult = NoNumber
  /\ ret = NoRet
  /\ startItem = createItemFromIdea /\ agentCalls = 0 /\ vcsLog = <<>>
  /\ progressAppends = 0 /\ createdOverPr = FALSE /\ mergeQuery = "none" /\ pushExit = "none"
  /\ loopPrev = Null /\ opStart = Null
  /\ vIn = NoInput /\ vOut = NoResult
  /\ aMarker = <<>> /\ aTimeoutSet = FALSE /\ aIgnoresTerm = FALSE /\ aToWrite = <<>>
  /\ AgentIdle
  /\ DoctorIdle /\ dRuns = 0
  /\ promptsDir \in BOOLEAN /\ indexJson \in IndexFiles
  /\ OrchestratorIdle /\ oItems = [id \in ItemIds |-> "raw"]
  /\ fIn = NoCall /\ fOut = NoCall

SpecDoctor == InitDoctor /\ [][NextDoctor]_vars

\* wreckit doctor --fix beside a command on the same item: nothing in the
\* code keeps the two apart.  The behaviours taken here are those in which
\* the doctor finds something to fix, no new command is started while the
\* doctor is at work or after it, and the doctor exits as soon as it has
\* applied its fix.
NextConcurrent ==
  \/ dpc = "idle" /\ dRuns < MaxDoctorRuns /\ runPhaseCommand
  \/ dpc = "idle" /\ dRuns < MaxDoctorRuns /\ runCommand_entry
  \/ dpc # "report" /\ runCommand_loop
  \/ dpc # "report" /\ runnerReturns
  \/ dpc # "report" /\ runPhaseResearch_start
  \/ dpc # "report" /\ runPhaseResearch_agent
  \/ dpc # "report" /\ runPhasePlan_start
  \/ dpc # "report" /\ runPhasePlan_agent
  \/ dpc # "report" /\ runPhaseImplement_start
  \/ dpc # "report" /\ runPhaseImplement_loop
  \/ dpc # "report" /\ runPhasePr_start
  \/ dpc # "report" /\ ensureBranch
  \/ dpc # "report" /\ commitIfDirty
  \/ dpc # "report" /\ pushBranch
  \/ dpc # "report" /\ createOrUpdatePr
  \/ dpc # "report" /\ persistInPr
  \/ dpc # "report" /\ runPhaseComplete_start
  \/ dpc # "report" /\ runPhaseComplete_query
  \/ dpc = "idle" /\ MergePr
  \/ doctor_diagnose /\ dpc' = "applyFixes"
  \/ doctor_read
  \/ doctor_write
  \/ doctor_exit

SpecConcurrent == Init /\ [][NextConcurrent]_vars

\* ================================================================== claims
Applied == vOut # NoResult

\* target is the state immediately after current in the ordering
IsNextInOrder(current, target) == getStateIndex(target) = getStateIndex(current) + 1

\* every story of a readable story document is done
EveryStoryDone(doc) ==
  doc # NullPrd /\ \A i \in 1..Len(doc.user_stories) : doc.user_stories[i] = "done"

SomeStoryPending(doc) ==
  doc # NullPrd /\ \E i \in 1..Len(doc.user_stories) : doc.user_stories[i] = "pending"

\* C1: a runner call that returns success leaves the persisted state index
\* where it was when the call began or one above it; it never lowers it and
\* never raises it by more than one (no diagnostics repair is in the model).
C1_StateIndexStep ==
  (pc = "ret" /\ ret.status = "success")
    => \/ getStateIndex(item.state) = getStateIndex(startItem.state)
       \/ getStateIndex(item.state) = getStateIndex(startItem.state) + 1

\* a forced research re-run from researched resets the in-memory state to raw
\* and persists researched again
C1_Witness ==
  /\ pc = "ret" /\ ret.status = "success" /\ phase = "research" /\ opts.force
  /\ startItem.state = "researched" /\ item.state = "researched" /\ agentCalls = 1

\* C2: validateTransition is invalid, whatever the context, whenever target
\* is not the state immediately after current; nothing is valid from done.
C2_OnlyNextState ==
  (Applied /\ ~IsNextInOrder(vIn.current, vIn.target)) => ~vOut.valid

\* a revisit asked for in a context where every guard would hold
C2_Witness ==
  /\ Applied /\ vIn.current = "planned" /\ vIn.target = "planned"
  /\ vIn.ctx.hasPlanMd /\ vIn.ctx.prd # NullPrd /\ ~vOut.valid

\* the guard of a target state as the claim words it
ClaimedGuard(target, ctx) ==
  CASE target = "researched"   -> ctx.hasResearchMd
    [] target = "planned"      -> ctx.hasPlanMd /\ ctx.prd # NullPrd
    [] target = "implementing" -> SomeStoryPending(ctx.prd)
    [] target = "in_pr"        -> EveryStoryDone(ctx.prd) /\ ctx.hasPr
    [] target = "done"         -> ctx.prMerged
    [] OTHER                   -> FALSE

\* the guard of in_pr also asks for a story document with at least one story
AmendedGuard(target, ctx) ==
  IF target = "in_pr"
  THEN EveryStoryDone(ctx.prd) /\ Len(ctx.prd.user_stories) > 0 /\ ctx.hasPr
  ELSE ClaimedGuard(target, ctx)

\* C3 as stated: for an adjacent pair validateTransition is valid exactly when
\* the guard of the target holds, in_pr exactly when every story is done and
\* a PR reference is recorded; an invalid result carries a reason.
C3_Original ==
  (Applied /\ IsNextInOrder(vIn.current, vIn.target))
    => /\ vOut.valid <=> ClaimedGuard(vIn.target, vIn.ctx)
       /\ ~vOut.valid => vOut.reason # Null

\* C3 amended: as stated, but in_pr is valid exactly when the story document
\* has at least one story, every story is done and a PR reference is recorded
\* (a document with an empty story list never passes the guard of in_pr).
C3_GuardsAmended ==
  (Applied /\ IsNextInOrder(vIn.current, vIn.target))
    => /\ vOut.valid <=> AmendedGuard(vIn.target, vIn.ctx)
       /\ ~vOut.valid => vOut.reason # Null

C3_Witness ==
  /\ Applied /\ vIn.current = "implementing" /\ vIn.target = "in_pr"
  /\ vIn.ctx.prd = ValidPrd(<<>>) /\ vIn.ctx.hasPr /\ ~vOut.valid
  /\ vOut.reason = "not all stories are done"

\* C4: every write that leaves the record in state in_pr is the delivery
\* runner's, made from state implementing in a call that read a story
\* document with every story done, and it records a branch name, a PR URL
\* and a PR number.
C4_InPrOnlyByDelivery ==
  [][(item' # item /\ item'.state = "in_pr")
       => /\ phase = "pr" /\ pc = "persist"
          /\ item.state = "implementing"
          /\ EveryStoryDone(prd)
          /\ item'.branch # Null /\ item'.pr_url # NoNumber /\ item'.pr_number # NoNumber]_vars

C4_Witness ==
  /\ pc = "ret" /\ phase = "pr" /\ ret.status = "success"
  /\ startItem.state = "implementing" /\ item.state = "in_pr"
  /\ item.branch = BranchName /\ item.pr_number = {1} /\ item.pr_url = {1}

\* C5 as stated: the implement runner persists implementing, on first entry
\* from planned, only when the story document it read in that call has at
\* least one pending story.
C5_ImplementingNeedsPending ==
  [][(item.state = "planned" /\ item'.state = "implementing")
       => (phase = "implement" /\ SomeStoryPending(prd'))]_vars

\* C6: done is persisted only by the complete runner, from state in_pr with
\* a recorded PR number, in a call whose merge-status query reported merged
\* (exit code zero and the recorded pull request merged); a complete call
\* that does not see merged returns a failure and leaves the record as it
\* found it.
C6_DoneOnlyWhenMerged ==
  /\ [][(item' # item /\ item'.state = "done")
          => /\ phase = "complete" /\ pc = "isPrMerged"
             /\ item.state = "in_pr" /\ item.pr_number # NoNumber
             /\ StateIsMerged(item.pr_number)
             /\ mergeQuery' = "merged"]_vars
  /\ []((pc = "ret" /\ phase = "complete" /\ mergeQuery # "merged")
          => (ret.status = "failure" /\ item = startItem))

C6_Witness ==
  /\ pc = "ret" /\ phase = "complete" /\ ret.status = "failure"
  /\ ret.error = "PR not merged yet" /\ mergeQuery = "not merged"
  /\ item.state = "in_pr" /\ remotePr > 0 /\ ~prMerged

\* C7: one call of the implement runner spawns the agent at most
\* max_iterations times, its iteration count never passes max_iterations,
\* and a call that ends with the count exhausted and stories still pending
\* returns failure.
C7_ImplementBounded ==
  phase = "implement"
    => /\ agentCalls <= MaxIterations
       /\ iteration <= MaxIterations
       /\ agentCalls <= iteration
       /\ (pc = "ret" /\ iteration >= MaxIterations /\ hasPendingStories(prd))
            => ret.status = "failure"

C7_Witness ==
  /\ pc = "ret" /\ phase = "implement" /\ agentCalls = MaxIterations
  /\ hasPendingStories(prd) /\ ret.status = "failure"
  /\ ret.error = "Reached max iterations with stories still pending"

\* C8 as stated: the per-item loop of run <id> terminates, whatever the item
\* state and the artifacts on disk are.
C8_RunLoopTerminates == (cmd.name = "run") ~> (cmd.name = "none")

IsPrefix(s, t) == Len(s) <= Len(t) /\ \A i \in 1..Len(s) : s[i] = t[i]

DeliveryStepsDirty ==
  <<"ensureBranch", "hasUncommittedChanges", "commitAll", "pushBranch", "createOrUpdatePr", "saveItem">>

DeliveryStepsClean ==
  <<"ensureBranch", "hasUncommittedChanges", "pushBranch", "createOrUpdatePr", "saveItem">>

C10_NoCreateOverExistingPr ==
  /\ ~createdOverPr
  /\ (pc = "persist" /\ ~opts.dryRun) => prResult = {remotePr}

\* C13 as stated: every runner call that does not succeed returns a failure
\* result (it raises no exception) and the reason it returns is the
\* last_error of the persisted record.
C13_FailuresReturnedAndRecorded ==
  (pc = "ret" /\ ret.status # "success")
    => (ret.status = "failure" /\ item.last_error = ret.error)

\* the failures of the agent and of the artifacts it was to produce
AgentOrArtifactErrors ==
  {"Agent timed out", "Agent failed with exit code",
   "Agent did not create research.md", "Agent did not create plan.md",
   "Agent did not create prd.json",
   "prd.json is not valid JSON or fails schema validation",
   "prd.json became invalid during implementation"}

\* C14 as stated: a runner call that fails because the agent crashed or timed
\* out, or because an artifact is missing or invalid, leaves the persisted
\* state as it was when the call began.
C14_AgentFailureKeepsState ==
  (pc = "ret" /\ ret.status = "failure" /\ ret.error \in AgentOrArtifactErrors)
    => item.state = startItem.state

\* C15 as stated: the record is written with state in_pr only in a delivery
\* run whose git push exited zero.
C15_InPrOnlyAfterPushSucceeded ==
  [][(item' # item /\ item'.state = "in_pr") => pushExit = "zero"]_vars

\* C16 as stated: no operation of the VCS adapter throws; a delivery run is
\* never left by an exception of create-or-update PR.
C16_AdapterNeverThrows == ret.status # "threw"

\* C17 as stated: while a runner called with dryRun = true is in progress the
\* record is the one it found, no agent was spawned, nothing was appended to
\* the progress log and no push or PR creation was executed.
C17_DryRunNoSideEffects ==
  (opts.dryRun /\ pc # "idle")
    => /\ item = startItem
       /\ agentCalls = 0 /\ progressAppends = 0
       /\ pushExit = "none" /\ ~createdOverPr

\* C18 as stated: when run <id> finds the item in state implementing with a
\* pending story, the runner it calls is the implement runner.
C18_RunResumesImplement ==
  [][(pc = "run" /\ cmd.name = "run" /\ pc' = "start"
        /\ item.state = "implementing" /\ hasPendingStories(loadPrdSafe(prdFile)))
       => phase' = "implement"]_vars

\* C11 as stated: the result of an agent process that ran to its close
\* reports success exactly when its exit code is 0 and the completion marker
\* occurs in the output it streamed, however the output was split in chunks.
C11_SuccessIffExitZeroAndMarker ==
  aProc = "closed"
    => (aResult.success <=> (aExitCode = {0} /\ includes(toString(aWritten), aMarker)))

\* C12 as stated: once the timeout has expired on a process that has not
\* exited, the invocation eventually resolves with timedOut = true.
C12_TimeoutResolves ==
  (aTimedOut /\ aProc = "running") ~> (aResult.status = "resolved" /\ aResult.timedOut)

\* C19 as stated: every write of the item record is made by an invocation
\* whose view of the record (what it read, or what it last wrote itself) is
\* the record persisted at that moment; no write is computed from an older
\* version.
C19_NoStaleWrite ==
  [][(item' # item)
       => IF dpc = "write" /\ dpc' # "write"
          THEN item = dItem
          ELSE item \in {startItem, mem}]_vars

\* C20: the state a diagnostics repair writes never has a higher index than
\* the state it replaces, for every item state and every configuration of
\* artifacts.
C20_RepairNeverRaises ==
  /\ [][(dpc = "write" /\ dpc' # "write")
          => getStateIndex(item'.state) <= getStateIndex(item.state)]_vars
  /\ [](dFix.fixed => getStateIndex(dFix.to) < getStateIndex(dFix.from))

\* a planned item with neither plan.md, prd.json nor research.md is reset to raw
C20_Witness ==
  /\ dpc = "report" /\ dFix = [fixed |-> TRUE, from |-> "planned", to |-> "raw"]
  /\ item.state = "raw" /\ ~hasResearchMd /\ ~hasPlanMd /\ prdFile = PrdAbsent

C25_SuccessClearsLastError ==
  (pc = "ret" /\ ret.status = "success" /\ ~opts.dryRun) => item.last_error = Null

\* C26 as stated: a plan runner call without dryRun returns success only if
\* plan.md exists and prd.json is readable and valid against the schema.
C26_PlanSuccessNeedsValidPrd ==
  (pc = "ret" /\ phase = "plan" /\ ret.status = "success" /\ ~opts.dryRun)
    => (hasPlanMd /\ loadPrdSafe(prdFile) # NullPrd)

\* C27: an implement runner call without dryRun returns success only if the
\* story document it read last is readable and has no pending story; it
\* returns failure when the iteration limit is reached with a story pending
\* and when the document is unreadable or invalid after an agent run.
C27_ImplementSuccessNeedsNoPending ==
  /\ [](( pc = "ret" /\ phase = "implement" /\ ~opts.dryRun)
          => /\ ret.status = "success" => (prd # NullPrd /\ ~SomeStoryPending(prd))
             /\ (SomeStoryPending(prd) \/ prd = NullPrd) => ret.status = "failure")
  /\ [][(pc = "loop" /\ phase = "implement" /\ ~opts.dryRun /\ agentCalls' = agentCalls + 1
           /\ loadPrdSafe(prdFile') = NullPrd)
          => (pc' = "ret" /\ ret'.status = "failure")]_vars

\* the agent completed the last pending story and the runner returned success
C27_Witness ==
  /\ pc = "ret" /\ phase = "implement" /\ ~opts.dryRun /\ ret.status = "success"
  /\ agentCalls = 1 /\ prd = ValidPrd(<<"done", "done">>)

\* ------------------------------------------------------- interrupt (Ctrl-C)
\* setupInterruptHandler: the first SIGINT arms process.exit(130) 100 ms later and
\* a second one exits at once; the running command goes on until then, so the exit
\* takes effect at whatever point the command has reached. Nothing is written.
SIGINT ==
  /\ pc # "idle"
  /\ ExitWith("interrupted")
  /\ UNCHANGED <<diskVars, gitVars, vIn, vOut, agentVars, doctorVars, orchVars, fnVars>>

NextInterrupt ==
  \/ Next
  \/ SIGINT

SpecInterrupt == Init /\ [][NextInterrupt]_vars

\* C28: when an interrupt ends a runner or the run loop, the index of the persisted
\* state is neither below the index it had when the operation started (the runner
\* call, and the command that made it) nor more than one above it.
C28_InterruptKeepsStateInStep ==
  [][(pc # "idle" /\ exit' = "interrupted")
       => /\ getStateIndex(item'.state) >= getStateIndex(opStart)
          /\ getStateIndex(item'.state) <= getStateIndex(opStart) + 1
          /\ pc # "run" => /\ getStateIndex(item'.state) >= getStateIndex(startItem.state)
                           /\ getStateIndex(item'.state) <= getStateIndex(startItem.state) + 1]_vars

\* C23: when doctor --fix reports, every fixable diagnostic it found has exactly
\* one repair result, marked fixed or not, whatever the outcome of the repairs
\* before it: a repair that failed or threw did not end the run.
C23_OneResultPerFixable ==
  (dpc = "report" /\ dOptions.fix)
    => /\ Len(dResults) = Cardinality({d \in dDiagnostics : d.fixable})
       /\ \A d \in dDiagnostics :
            d.fixable => Cardinality({i \in 1..Len(dResults) : dResults[i].diagnostic = d}) = 1
       /\ \A i \in 1..Len(dResults) :
            /\ dResults[i].diagnostic \in dDiagnostics /\ dResults[i].diagnostic.fixable
            /\ dResults[i].fixed \in BOOLEAN

\* the first of three repairs failed and the two after it were made
C23_Witness ==
  /\ dpc = "report" /\ dOptions.fix /\ Len(dResults) = 3
  /\ ~dResults[1].fixed /\ dResults[2].fixed /\ dResults[3].fixed

\* C22 as stated: when doctor --fix reports and none of its repairs failed, the
\* item is not researched without research.md, and not planned with plan.md or
\* prd.json missing.
C22_FixLeavesNoMismatch ==
  (dpc = "report" /\ dOptions.fix /\ \A i \in 1..Len(dResults) : dResults[i].fixed)
    => /\ ~(item.state = "researched" /\ ~hasResearchMd)
       /\ ~(item.state = "planned" /\ (~hasPlanMd \/ prdFile = PrdAbsent))

\* the highest state whose prerequisites the artifacts present satisfy, for a
\* record in one of the two mismatches that are repaired
HighestSatisfied(state, hasResearch, hasPlan, hasPrd) ==
  IF state = "researched" /\ ~hasResearch THEN "raw"
  ELSE IF state = "planned" /\ (~hasPlan \/ ~hasPrd)
  THEN IF hasResearch THEN "researched" ELSE "raw"
  ELSE state

\* C21 as stated: the state a mismatch repair computes from the record and the
\* artifacts it reads is raw for researched without research.md, and for
\* planned without plan.md or without prd.json it is researched when
\* research.md exists and raw otherwise; and that is the state it writes.
C21_RepairMovesToHighestSatisfied ==
  /\ [][(dpc = "applyFixes" /\ dpc' = "write")
          => dNewState' = HighestSatisfied(item.state, hasResearchMd, hasPlanMd, fileExists_prd)]_vars
  /\ [][(dpc = "write" /\ dpc' # "write" /\ item' # item) => item'.state = dNewState]_vars

\* ------------------------------------- run-all and run-next (orchestrator.ts)
\* most runner calls of one run that return success without advancing the item
MaxStalls == 1

\* most subprocess invocations (agent, git, gh) of one runner call
MaxInvocations == 2

Range(seq) == {seq[i] : i \in 1..Len(seq)}

\* the orders in which readdir may list the item directories
ReaddirOrders == {order \in [ItemIds -> ItemIds] : Range(order) = ItemIds}

\* a.id.localeCompare(b.id), on identifiers numbered in the order of their ids
localeCompare(a, b) == IF a.id < b.id THEN -1 ELSE IF a.id > b.id THEN 1 ELSE 0

RECURSIVE insertSorted(_, _)
insertSorted(x, seq) ==
  IF seq = <<>> THEN <<x>>
  ELSE IF localeCompare(x, Head(seq)) <= 0 THEN <<x>> \o seq
  ELSE <<Head(seq)>> \o insertSorted(x, Tail(seq))

\* a scan that returns the items in the order readdir listed them
sort_Unsorted(seq) == seq

\* items.sort((a, b) => a.id.localeCompare(b.id))
RECURSIVE sort(_)
sort(seq) == IF seq = <<>> THEN <<>> ELSE insertSorted(Head(seq), sort(Tail(seq)))

\* scanItems: id and state of every item, sorted by id
scanItems(order) ==
  sort([i \in 1..MaxItems |-> [id |-> order[i], state |-> oItems[order[i]]]])

ids(itemSeq) == [i \in 1..Len(itemSeq) |-> itemSeq[i].id]

\* a filter that keeps the items that are done among those to run
notDone_All(scanned) == TRUE

notDone(scanned) == scanned.state # "done"

isDone(scanned) == scanned.state = "done"

\* a call that goes on without waiting for the promise it was given
awaited_NoWait(position) == TRUE

\* await runCommand(...): the caller goes on when the promise has settled
awaited(position) == position \in {"returned", "threw"}

orchestratorFrame == <<diskVars, gitVars, cmd, exit, pc, phase, opts, localVars, ret, histVars,
                       loopPrev, opStart, vIn, vOut, agentVars, doctorVars, fnVars>>

\* wreckit [--dry-run]: orchestrateAll up to its for loop
orchestrateAll_scan ==
  /\ opc = "idle"
  /\ \E dryRun \in BOOLEAN, order \in ReaddirOrders :
       LET items == scanItems(order)
           nonDoneItems == SelectSeq(items, notDone)
           doneItems == SelectSeq(items, isDone)
       IN  /\ oOptions' = [mode |-> "all", dryRun |-> dryRun]
           /\ oScan' = items
           /\ oQueue' = ids(nonDoneItems)
           /\ oI' = 1
           /\ oResult' = [NoOrchestratorResult EXCEPT
                            !.skipped = ids(doneItems),
                            !.remaining = IF dryRun THEN ids(nonDoneItems) ELSE <<>>]
           /\ opc' = IF dryRun THEN "returned" ELSE "for"
  /\ UNCHANGED <<oItems, oPc, oStalls, oInvocations, oAttempts, orchestratorFrame>>

\* the head of the for loop and its call of runCommand(item.id, ...)
orchestrateAll_for ==
  /\ opc = "for"
  /\ IF oI > Len(oQueue)
     THEN /\ opc' = "returned"
          /\ UNCHANGED <<oPc, oAttempts, oStalls, oInvocations>>
     ELSE /\ opc' = "await"
          /\ oPc' = [oPc EXCEPT ![oQueue[oI]] = "run"]
          /\ oAttempts' = Append(oAttempts, oQueue[oI])
          /\ oStalls' = 0 /\ oInvocations' = 0
  /\ UNCHANGED <<oItems, oOptions, oScan, oQueue, oI, oResult, orchestratorFrame>>

\* the promise of runCommand settles: completed.push or, in the catch, failed.push
orchestrateAll_settle ==
  /\ opc = "await" /\ oOptions.mode = "all"
  /\ awaited(oPc[oQueue[oI]])
  /\ oResult' = IF oPc[oQueue[oI]] = "threw"
                THEN [oResult EXCEPT !.failed = Append(@, oQueue[oI])]
                ELSE [oResult EXCEPT !.completed = Append(@, oQueue[oI])]
  /\ oI' = oI + 1
  /\ opc' = "for"
  /\ UNCHANGED <<oItems, oOptions, oScan, oQueue, oPc, oStalls, oInvocations, oAttempts,
                 orchestratorFrame>>

\* wreckit next [--dry-run]: orchestrateNext up to its call of runCommand
orchestrateNext_scan ==
  /\ opc = "idle"
  /\ \E dryRun \in BOOLEAN, order \in ReaddirOrders :
       LET items == scanItems(order)
           found == SelectSeq(items, notDone)
           nextItemId == IF found = <<>> THEN NoItem ELSE Head(found).id
       IN  /\ oOptions' = [mode |-> "next", dryRun |-> dryRun]
           /\ oScan' = items
           /\ IF nextItemId = NoItem
              THEN /\ oResult' = [NoOrchestratorResult EXCEPT !.success = TRUE]
                   /\ opc' = "returned"
                   /\ UNCHANGED <<oPc, oAttempts>>
              ELSE IF dryRun
              THEN /\ oResult' = [NoOrchestratorResult EXCEPT !.itemId = nextItemId, !.success = TRUE]
                   /\ opc' = "returned"
                   /\ UNCHANGED <<oPc, oAttempts>>
              ELSE /\ oResult' = [NoOrchestratorResult EXCEPT !.itemId = nextItemId]
                   /\ opc' = "await"
                   /\ oPc' = [oPc EXCEPT ![nextItemId] = "run"]
                   /\ oAttempts' = Append(oAttempts, nextItemId)
  /\ UNCHANGED <<oItems, oQueue, oI, oStalls, oInvocations, orchestratorFrame>>

\* the promise of runCommand settles in orchestrateNext
orchestrateNext_settle ==
  /\ opc = "await" /\ oOptions.mode = "next"
  /\ awaited(oPc[oResult.itemId])
  /\ oResult' = [oResult EXCEPT !.success = (oPc[oResult.itemId] # "threw")]
  /\ opc' = "returned"
  /\ UNCHANGED <<oItems, oOptions, oScan, oQueue, oI, oPc, oStalls, oInvocations, oAttempts,
                 orchestratorFrame>>

\* runCommand of commands/run.ts on one of several items: the item is read, and
\* the run returns when it is done or the runner of its next phase is called
runCommand_read ==
  /\ \E id \in ItemIds :
       /\ oPc[id] = "run"
       /\ oPc' = [oPc EXCEPT ![id] = IF oItems[id] = "done" THEN "returned" ELSE "runner"]
  /\ oInvocations' = 0
  /\ UNCHANGED <<oItems, opc, oOptions, oScan, oQueue, oI, oStalls, oResult, oAttempts, orchestratorFrame>>

\* the runner awaits runAgent or a git or gh command: the process is spawned
runner_invoke ==
  /\ oInvocations < MaxInvocations
  /\ \E id \in ItemIds :
       /\ oPc[id] = "runner"
       /\ oPc' = [oPc EXCEPT ![id] = "invoke"]
  /\ oInvocations' = oInvocations + 1
  /\ UNCHANGED <<oItems, opc, oOptions, oScan, oQueue, oI, oStalls, oResult, oAttempts, orchestratorFrame>>

\* the promise of the invocation resolves (close or error of the process)
runner_resolve ==
  /\ \E id \in ItemIds :
       /\ oPc[id] = "invoke"
       /\ oPc' = [oPc EXCEPT ![id] = "runner"]
  /\ UNCHANGED <<oItems, opc, oOptions, oScan, oQueue, oI, oStalls, oInvocations, oResult, oAttempts,
                 orchestratorFrame>>

\* the runner returns to runCommand: success with the item advanced by one
\* state, success with the state it found, or a failure, which runCommand throws
runner_returns ==
  /\ \E id \in ItemIds, outcome \in {"advanced", "same", "failure"} :
       /\ oPc[id] = "runner"
       /\ outcome = "same" => oStalls < MaxStalls
       /\ oItems' = IF outcome = "advanced"
                    THEN [oItems EXCEPT ![id] = WORKFLOW_STATES[getStateIndex(oItems[id]) + 2]]
                    ELSE oItems
       /\ oStalls' = IF outcome = "same" THEN oStalls + 1 ELSE oStalls
       /\ oPc' = [oPc EXCEPT ![id] = IF outcome = "failure" THEN "threw" ELSE "run"]
  /\ UNCHANGED <<opc, oOptions, oScan, oQueue, oI, oInvocations, oResult, oAttempts, orchestratorFrame>>

\* the command prints its result and the process exits
orchestrator_exit ==
  /\ opc = "returned"
  /\ opc' = "idle" /\ oOptions' = NoOrchestratorOptions /\ oScan' = <<>> /\ oQueue' = <<>> /\ oI' = 0
  /\ oPc' = [id \in ItemIds |-> "none"] /\ oStalls' = 0 /\ oInvocations' = 0
  /\ oResult' = NoOrchestratorResult /\ oAttempts' = <<>>
  /\ UNCHANGED <<oItems, orchestratorFrame>>

NextOrchestrate ==
  \/ orchestrateAll_scan
  \/ orchestrateAll_for
  \/ orchestrateAll_settle
  \/ orchestrateNext_scan
  \/ orchestrateNext_settle
  \/ runCommand_read
  \/ runner_invoke
  \/ runner_resolve
  \/ runner_returns
  \/ orchestrator_exit

\* run-all and run-next over any states of the items
InitOrchestrate ==
  /\ item = createItemFromIdea
  /\ hasResearchMd = FALSE /\ hasPlanMd = FALSE /\ prdFile = PrdAbsent
  /\ branchLocal = FALSE /\ dirty = FALSE /\ remotePr = 0 /\ prMerged = FALSE
  /\ cmd = NoCmd /\ exit = "none" /\ pc = "idle" /\ phase = "none" /\ opts = NoOpts
  /\ mem = createItemFromIdea /\ prd = NullPrd /\ iteration = 0 /\ prResult = NoNumber
  /\ ret = NoRet
  /\ startItem = createItemFromIdea /\ agentCalls = 0 /\ vcsLog = <<>>
  /\ progressAppends = 0 /\ createdOverPr = FALSE /\ mergeQuery = "none" /\ pushExit = "none"
  /\ loopPrev = Null /\ opStart = Null
  /\ vIn = NoInput /\ vOut = NoResult
  /\ aMarker = <<>> /\ aTimeoutSet = FALSE /\ aIgnoresTerm = FALSE /\ aToWrite = <<>>
  /\ AgentIdle
  /\ DoctorIdle /\ dRuns = 0
  /\ promptsDir = TRUE /\ indexJson = "absent"
  /\ OrchestratorIdle /\ oItems \in [ItemIds -> WorkflowState]
  /\ fIn = NoCall /\ fOut = NoCall

SpecOrchestrate == InitOrchestrate /\ [][NextOrchestrate]_vars

\* runCommand is at work on the item: its promise has not settled
BeingAdvanced(id) == oPc[id] \in {"run", "runner", "invoke"}

\* C29: in a run-all or run-next process at most one item is being advanced and
\* at most one subprocess invocation is outstanding at any moment, and a run or
\* an invocation starts only when none is under way.
C29_OneAtATime ==
  /\ [](/\ Cardinality({id \in ItemIds : BeingAdvanced(id)}) <= 1
        /\ Cardinality({id \in ItemIds : oPc[id] = "invoke"}) <= 1)
  /\ [][\A id \in ItemIds :
          /\ (oPc[id] # "invoke" /\ oPc'[id] = "invoke")
               => \A other \in ItemIds : oPc[other] # "invoke"
          /\ (~BeingAdvanced(id) /\ BeingAdvanced(id)')
               => \A other \in ItemIds : ~BeingAdvanced(other)]_vars

\* the second item of a run-all has a subprocess outstanding after the run of
\* the first has failed
C29_Witness ==
  /\ oOptions.mode = "all" /\ oAttempts = <<1, 2>> /\ oResult.failed = <<1>>
  /\ oPc[2] = "invoke" /\ oPc[1] = "threw"

RECURSIVE Ascending(_)
Ascending(S) ==
  IF S = {} THEN <<>>
  ELSE LET least == CHOOSE x \in S : \A y \in S : x <= y
       IN  <<least>> \o Ascending(S \ {least})

\* the items that were not done when scanItems read them, in ascending order
NonDoneAtScan == Ascending({scanned.id : scanned \in {r \in Range(oScan) : r.state # "done"}})

\* C30: run-all calls runCommand on the items that were not done at the scan, in
\* ascending order of identifier and each once, going on after a failure, so that
\* when it returns all of them have been attempted and every one is recorded as
\* completed or failed; run-next calls it on the first of them only, and reports
\* no item when there is none.
C30_RunAllInOrderRunNextFirst ==
  /\ oOptions.mode = "all"
       => /\ IsPrefix(oAttempts, NonDoneAtScan)
          /\ (opc = "returned" /\ ~oOptions.dryRun)
               => /\ oAttempts = NonDoneAtScan
                  /\ Range(oResult.completed) \cup Range(oResult.failed) = Range(oAttempts)
                  /\ Len(oResult.completed) + Len(oResult.failed) = Len(oAttempts)
  /\ oOptions.mode = "next"
       => IF NonDoneAtScan = <<>>
          THEN oAttempts = <<>> /\ oResult.itemId = NoItem /\ opc = "returned"
          ELSE /\ oResult.itemId = Head(NonDoneAtScan)
               /\ oAttempts = IF oOptions.dryRun THEN <<>> ELSE <<Head(NonDoneAtScan)>>

\* run-all has returned: the run of the first item failed and the second item
\* was still run, to done
C30_Witness ==
  /\ opc = "returned" /\ oOptions.mode = "all" /\ ~oOptions.dryRun
  /\ oAttempts = <<1, 2>> /\ oResult.failed = <<1>> /\ oResult.completed = <<2>>
  /\ oItems[1] # "done" /\ oItems[2] = "done"

\* C40 as stated: no result of runAgent has timedOut and success both true.
C40_TimedOutNeverSuccess ==
  aResult.status = "resolved" => ~(aResult.timedOut /\ aResult.success)

\* commands and runs of wreckit doctor on the same item, one after the other:
\* the prompts directory exists and there is no index.json, so the state
\* mismatch is the only repair; the runs of the doctor taken are those with --fix
\* that find something to repair
NextInTurn ==
  \/ dpc = "idle" /\ Next
  \/ pc = "idle" /\ doctor_diagnose /\ dpc' = "applyFixes"
  \/ doctor_read
  \/ doctor_write
  \/ doctor_exit

SpecInTurn == Init /\ [][NextInTurn]_vars

\* C38: whenever the persisted state is in_pr or done, the persisted branch, PR
\* URL and PR number are all set, after any runner calls and, beside them, a
\* diagnostics repair.
C38_DeliveredItemHasPrFields ==
  item.state \in {"in_pr", "done"}
    => (item.branch # Null /\ item.pr_url # NoNumber /\ item.pr_number # NoNumber)

\* a delivered item was reset by no repair and completed after its pull request
\* was merged
C38_Witness ==
  /\ item.state = "done" /\ item.branch = BranchName /\ item.pr_url # NoNumber
  /\ item.pr_number # NoNumber /\ dRuns = 1 /\ pc = "idle"

\* C36 as stated: when a run of doctor --fix has made its repairs and every one
\* of them reported fixed, the diagnostics of the repository as the run leaves
\* it hold no fixable diagnostic.
C36_FixConvergesInOnePass ==
  (/\ dpc = "report" /\ dOptions.fix /\ dResults # <<>>
   /\ \A i \in 1..Len(dResults) : dResults[i].fixed)
    => fixableDiagnostics(diagnose) = <<>>

\* the three cases of C33; an item has zero pending stories when its prd.json
\* is a valid story document none of whose stories is pending
C33_Mismatched ==
  \/ item.state = "researched" /\ ~hasResearchMd
  \/ item.state = "planned" /\ (~hasPlanMd \/ ~fileExists_prd)
  \/ item.state = "implementing" /\ prdFile.kind = "valid" /\ ~hasPendingStories(prdFile)

C37_RunnerOutputNeverMismatched ==
  pc = "idle"
    => ~\E d \in diagnoseItem(item, hasResearchMd, hasPlanMd, prdFile) : d.code = "STATE_FILE_MISMATCH"

\* the identifiers that scanItems read in a state that satisfies the test
ScannedIn(states) == {r.id : r \in {x \in Range(oScan) : x.state \in states}}

\* C39: when a run-all without --dry-run returns, skipped lists exactly the
\* items that were done at the scan, completed and failed have no item in
\* common and no item twice and together list exactly the items that were not
\* done at the scan, and every item in completed is persisted as done.
C39_ResultListsPartitionScan ==
  (opc = "returned" /\ oOptions.mode = "all" /\ ~oOptions.dryRun)
    => /\ Range(oResult.skipped) = ScannedIn({"done"})
       /\ Len(oResult.skipped) = Cardinality(ScannedIn({"done"}))
       /\ Range(oResult.completed) \cap Range(oResult.failed) = {}
       /\ Range(oResult.completed) \cup Range(oResult.failed) = ScannedIn(WorkflowState \ {"done"})
       /\ Len(oResult.completed) + Len(oResult.failed) = Cardinality(ScannedIn(WorkflowState \ {"done"}))
       /\ \A id \in Range(oResult.completed) : oItems[id] = "done"
       /\ oResult.remaining = <<>>

\* run-all has returned: the first item was done at the scan and is skipped,
\* the second was raw and has been run to done
C39_Witness ==
  /\ opc = "returned" /\ oOptions.mode = "all" /\ ~oOptions.dryRun
  /\ oScan = <<[id |-> 1, state |-> "done"], [id |-> 2, state |-> "raw"]>>
  /\ oResult.skipped = <<1>> /\ oResult.completed = <<2>> /\ oResult.failed = <<>>
  /\ oItems[2] = "done"

\* ------------------------------------------- functions applied on their own
fnFrame == <<diskVars, gitVars, cmd, exit, pc, phase, opts, localVars, ret, histVars,
             loopPrev, opStart, vIn, vOut, agentVars, doctorVars, orchVars, fIn>>

\* -------------------------------------------------- toExitCode (errors.ts)
\* strings are sequences of characters
Sigint == <<"s", "i", "g", "i", "n", "t">>

Interrupted == <<"i", "n", "t", "e", "r", "r", "u", "p", "t", "e", "d">>

\* the letters of the messages applied, in lower and in upper case
LowerCaseLetters == <<"s", "i", "g", "n", "t", "e", "r", "u", "p", "d", "o", "a">>

UpperCaseLetters == <<"S", "I", "G", "N", "T", "E", "R", "U", "P", "D", "O", "A">>

\* a toLowerCase that leaves every character as it is
toLowerCaseChar_AsIs(c) == c

toLowerCaseChar(c) ==
  IF \E i \in 1..Len(UpperCaseLetters) : UpperCaseLetters[i] = c
  THEN LowerCaseLetters[CHOOSE i \in 1..Len(UpperCaseLetters) : UpperCaseLetters[i] = c]
  ELSE c

\* String.prototype.toLowerCase
toLowerCase(s) == [i \in 1..Len(s) |-> toLowerCaseChar(s[i])]

toUpperCaseChar(c) ==
  IF \E i \in 1..Len(LowerCaseLetters) : LowerCaseLetters[i] = c
  THEN UpperCaseLetters[CHOOSE i \in 1..Len(LowerCaseLetters) : LowerCaseLetters[i] = c]
  ELSE c

toUpperCase(s) == [i \in 1..Len(s) |-> toUpperCaseChar(s[i])]

\* the first letter in upper case
capitalize(s) == [i \in 1..Len(s) |-> IF i = 1 THEN toUpperCaseChar(s[i]) ELSE s[i]]

\* the classes of errors.ts and the class each extends
SuperClass(class) ==
  CASE class = "InterruptedError" -> "WreckitError"
    [] class = "WreckitError" -> "Error"
    [] OTHER -> "none"

\* value instanceof class, for a value constructed by the class value.type
instanceof(value, class) ==
  \/ value.type = class
  \/ SuperClass(value.type) = class
  \/ SuperClass(SuperClass(value.type)) = class

toExitCode(error) ==
  IF error.type \in {"null", "undefined"} THEN 0
  ELSE IF instanceof(error, "InterruptedError") THEN 130
  ELSE IF instanceof(error, "Error")
          /\ LET message == toLowerCase(error.message)
             IN  includes(message, Sigint) \/ includes(message, Interrupted)
  THEN 130
  ELSE 1

\* the message of new InterruptedError()
OperationInterrupted ==
  <<"O", "p", "e", "r", "a", "t", "i", "o", "n", " ">> \o Interrupted

\* messages around the two words, in several letter cases, and around words
\* that fall short of them
MessageCores ==
  {<<>>, Sigint, toUpperCase(Sigint), capitalize(Sigint), SubSeq(Sigint, 1, 5),
   <<"s", "i", "g", " ", "i", "n", "t">>,
   Interrupted, toUpperCase(Interrupted), capitalize(Interrupted), SubSeq(Interrupted, 1, 9),
   <<"e", "r", "r", "o", "r">>}

Messages ==
  {prefix \o core \o suffix : prefix \in {<<>>, <<"a", " ">>, <<"S">>},
                              core \in MessageCores,
                              suffix \in {<<>>, <<"!">>}}

\* the values toExitCode is applied to: null, undefined, errors of the classes
\* of errors.ts and of Error itself, and strings, numbers and plain objects
\* (a plain object may have a message too)
Thrown ==
  {[type |-> t, message |-> <<>>] : t \in {"null", "undefined", "number"}}
    \cup {[type |-> "InterruptedError", message |-> OperationInterrupted]}
    \cup {[type |-> t, message |-> m] : t \in {"Error", "WreckitError", "string", "object"},
                                        m \in Messages}

toExitCode_apply ==
  /\ fIn.fn = "toExitCode" /\ fOut = NoCall
  /\ fOut' = [fn |-> "toExitCode", code |-> toExitCode(fIn.error)]
  /\ UNCHANGED fnFrame

\* ------------------------------- the story of an iteration (implement.ts)
\* most stories of a story document, and the largest priority number
MaxDocStories == 3

MaxPriority == 2

\* user_stories of a prd.json: id, priority and status of every story, the ids
\* numbered in document order
StoryDocuments ==
  UNION {{[i \in 1..n |-> [id |-> i, priority |-> f[i].priority, status |-> f[i].status]] :
            f \in [1..n -> [priority : 1..MaxPriority, status : {"pending", "done"}]]} :
         n \in 0..MaxDocStories}

NoStory == [id |-> 0, priority |-> 0, status |-> "none"]

isPending(s) == s.status = "pending"

\* a comparison that puts the largest priority number first
comparePriority_Descending(a, b) == b.priority - a.priority

\* (a, b) => a.priority - b.priority
comparePriority(a, b) == a.priority - b.priority

\* Array.prototype.sort with comparePriority: stable, so that x, which comes
\* before the stories of seq in the document, stays before those it ties with
RECURSIVE insertByPriority(_, _)
insertByPriority(x, seq) ==
  IF seq = <<>> THEN <<x>>
  ELSE IF comparePriority(x, Head(seq)) <= 0 THEN <<x>> \o seq
  ELSE <<Head(seq)>> \o insertByPriority(x, Tail(seq))

RECURSIVE sortByPriority(_)
sortByPriority(seq) ==
  IF seq = <<>> THEN <<>> ELSE insertByPriority(Head(seq), sortByPriority(Tail(seq)))

\* prd.user_stories.filter((s) => s.status === "pending").sort(...)
pendingStories(user_stories) == sortByPriority(SelectSeq(user_stories, isPending))

\* const currentStory = pendingStories[0], where the loop does not break
currentStory(user_stories) ==
  IF pendingStories(user_stories) = <<>> THEN NoStory ELSE Head(pendingStories(user_stories))

\* one turn of the loop of runPhaseImplement up to its progress record, the
\* agent having succeeded: the record names currentStory.id
currentStory_apply ==
  /\ fIn.fn = "currentStory" /\ fOut = NoCall
  /\ fOut' = [fn |-> "currentStory", story |-> currentStory(fIn.user_stories),
              logEntry |-> currentStory(fIn.user_stories).id]
  /\ UNCHANGED fnFrame

\* ------------------------------------------------ ensureBranch (git/index.ts)
BranchPrefixes == {"wreckit/", "feature-", ""}

ItemSlugs == {"001-auth", "002-ui", "features-003-api"}

BaseBranch == "main"

\* what ensureBranch is given and finds: the branch is under refs/heads, and
\* under refs/remotes of the remote
EnsureBranchInputs ==
  [fn : {"ensureBranch"}, branchPrefix : BranchPrefixes, itemSlug : ItemSlugs,
   dryRun : BOOLEAN, refsHeads : BOOLEAN, refsRemotes : BOOLEAN]

\* git show-ref --verify --quiet refs/heads/<branchName>
branchExists(in) == in.refsHeads

\* ensureBranch: the result it returns and the git commands it runs; the exit
\* codes of the checkouts are not read
ensureBranchResult(in) ==
  LET branchName == in.branchPrefix \o in.itemSlug
  IN  IF in.dryRun
      THEN [branchName |-> branchName, created |-> TRUE, git |-> <<>>]
      ELSE IF branchExists(in)
      THEN [branchName |-> branchName, created |-> FALSE,
            git |-> <<<<"show-ref", branchName>>, <<"checkout", branchName>>>>]
      ELSE [branchName |-> branchName, created |-> TRUE,
            git |-> <<<<"show-ref", branchName>>, <<"checkout", BaseBranch>>,
                      <<"checkout -b", branchName>>>>]

ensureBranch_apply ==
  /\ fIn.fn = "ensureBranch" /\ fOut = NoCall
  /\ fOut' = [fn |-> "ensureBranch", result |-> ensureBranchResult(fIn)]
  /\ UNCHANGED fnFrame

\* ------------------------------------- index.json against the items (doctor.ts)
IndexItems == [id : ItemIds, state : {"raw", "done"}, title : {"a", "b"}]

\* lists of items with no id twice: the id of an item is the path of its
\* directory
ItemLists ==
  UNION {{l \in [1..n -> IndexItems] : \A i, j \in 1..n : l[i].id = l[j].id => i = j} :
         n \in 0..MaxItems}

\* the item directories in the order readdir lists them, each with the id,
\* state and title of its item.json
ItemDirs == ItemLists

\* index.json: absent, not valid JSON or not valid against IndexSchema, or
\* valid with its items
IndexJsonFiles ==
  {[kind |-> "absent", items |-> <<>>], [kind |-> "invalid", items |-> <<>>]}
    \cup {[kind |-> "valid", items |-> entries] : entries \in ItemLists}

\* scanItems over the directories: id, state and title of every item, sorted
\* by id
scanItemDirs(dirs) == sort(dirs)

idSet(itemSeq) == {itemSeq[i].id : i \in 1..Len(itemSeq)}

\* actualItems.filter((i) => !indexedIds.has(i.id))
missingInIndex(indexedItems, actualItems) ==
  SelectSeq(actualItems, LAMBDA i : i.id \notin idSet(indexedItems))

\* indexedItems.filter((i) => !actualIds.has(i.id))
extraInIndex(indexedItems, actualItems) ==
  SelectSeq(indexedItems, LAMBDA i : i.id \notin idSet(actualItems))

\* indexedItems.find((i) => i.id === id): the first entry with the id
find(indexedItems, id) ==
  indexedItems[CHOOSE k \in 1..Len(indexedItems) :
                 /\ indexedItems[k].id = id
                 /\ \A j \in 1..(k - 1) : indexedItems[j].id # id]

\* a comparison that finds no state mismatch
stateMismatches_None(indexedItems, actualItems) == <<>>

\* actualItems.filter((actual) => indexed && indexed.state !== actual.state)
stateMismatches(indexedItems, actualItems) ==
  SelectSeq(actualItems,
            LAMBDA actual : /\ actual.id \in idSet(indexedItems)
                            /\ find(indexedItems, actual.id).state # actual.state)

\* what diagnoseIndex makes of the file: one of IndexFiles
indexFileStatus(file, dirs) ==
  IF file.kind = "absent" THEN "absent"
  ELSE IF file.kind = "invalid" THEN "stale"
  ELSE LET indexedItems == file.items
           actualItems == scanItemDirs(dirs)
       IN  IF \/ Len(missingInIndex(indexedItems, actualItems)) > 0
              \/ Len(extraInIndex(indexedItems, actualItems)) > 0
              \/ Len(stateMismatches(indexedItems, actualItems)) > 0
           THEN "stale"
           ELSE "in sync"

\* diagnoseIndex on an index.json over item directories
diagnoseIndex_apply ==
  /\ fIn.fn = "index" /\ fOut = NoCall
  /\ fOut' = [fn |-> "diagnoseIndex",
              diagnostics |-> diagnoseIndex(indexFileStatus(fIn.file, fIn.dirs))]
  /\ UNCHANGED fnFrame

\* applyFixes, case INDEX_STALE, when the write succeeds: the file written
rebuildIndex(dirs) == [kind |-> "valid", items |-> scanItemDirs(dirs)]

rebuildIndex_apply ==
  /\ fIn.fn = "index" /\ fOut = NoCall
  /\ fOut' = [fn |-> "rebuildIndex", file |-> rebuildIndex(fIn.dirs)]
  /\ UNCHANGED fnFrame

\* ---------------------------------------------- the functions, each on its own
\* a function is about to be applied to one of the inputs; no command runs
InitApplied(inputs) ==
  /\ item = createItemFromIdea
  /\ hasResearchMd = FALSE /\ hasPlanMd = FALSE /\ prdFile = PrdAbsent
  /\ branchLocal = FALSE /\ dirty = FALSE /\ remotePr = 0 /\ prMerged = FALSE
  /\ cmd = NoCmd /\ exit = "none" /\ pc = "idle" /\ phase = "none" /\ opts = NoOpts
  /\ mem = createItemFromIdea /\ prd = NullPrd /\ iteration = 0 /\ prResult = NoNumber
  /\ ret = NoRet
  /\ startItem = createItemFromIdea /\ agentCalls = 0 /\ vcsLog = <<>>
  /\ progressAppends = 0 /\ createdOverPr = FALSE /\ mergeQuery = "none" /\ pushExit = "none"
  /\ loopPrev = Null /\ opStart = Null
  /\ vIn = NoInput /\ vOut = NoResult
  /\ aMarker = <<>> /\ aTimeoutSet = FALSE /\ aIgnoresTerm = FALSE /\ aToWrite = <<>>
  /\ AgentIdle
  /\ DoctorIdle /\ dRuns = 0
  /\ promptsDir = TRUE /\ indexJson = "absent"
  /\ OrchestratorIdle /\ oItems = [id \in ItemIds |-> "raw"]
  /\ fIn \in inputs /\ fOut = NoCall

InitToExitCode == InitApplied({[fn |-> "toExitCode", error |-> e] : e \in Thrown})

SpecToExitCode == InitToExitCode /\ [][toExitCode_apply]_vars

InitCurrentStory == InitApplied({[fn |-> "currentStory", user_stories |-> u] : u \in StoryDocuments})

SpecCurrentStory == InitCurrentStory /\ [][currentStory_apply]_vars

InitEnsureBranch == InitApplied(EnsureBranchInputs)

SpecEnsureBranch == InitEnsureBranch /\ [][ensureBranch_apply]_vars

InitIndex ==
  InitApplied({[fn |-> "index", file |-> f, dirs |-> d] : f \in IndexJsonFiles, d \in ItemDirs})

NextIndex ==
  \/ diagnoseIndex_apply
  \/ rebuildIndex_apply

SpecIndex == InitIndex /\ [][NextIndex]_vars

\* the word w occurs in s, each of its letters in lower or in upper case
ContainsInAnyCase(s, w) ==
  \E i \in 1..(Len(s) - Len(w) + 1) :
    \A k \in 1..Len(w) : s[i + k - 1] \in {w[k], toUpperCaseChar(w[k])}

\* C31: toExitCode returns 0 for null and undefined, 130 for an
\* InterruptedError and for any Error whose message contains sigint or
\* interrupted in any letter case, 1 for every other value, and nothing else.
C31_ExitCodeIsZeroOneOr130 ==
  fOut.fn = "toExitCode"
    => LET error == fIn.error
           absent == error.type \in {"null", "undefined"}
           interrupted ==
             \/ error.type = "InterruptedError"
             \/ /\ error.type \in {"Error", "WreckitError"}
                /\ (ContainsInAnyCase(error.message, Sigint)
                      \/ ContainsInAnyCase(error.message, Interrupted))
       IN  fOut.code = IF absent THEN 0 ELSE IF interrupted THEN 130 ELSE 1

\* a WreckitError whose message holds Interrupted with a capital gives 130
C31_Witness ==
  /\ fOut.fn = "toExitCode" /\ fOut.code = 130
  /\ fIn.error.type = "WreckitError"
  /\ fIn.error.message = <<"a", " ">> \o capitalize(Interrupted) \o <<"!">>

\* C32: the story of an iteration, which its progress record names, is a
\* pending story of the story document read before the agent is invoked, no
\* pending story has a smaller priority number, and no pending story of the
\* same priority number comes before it in the document.
C32_LowestPriorityPendingInDocumentOrder ==
  fOut.fn = "currentStory"
    => LET u == fIn.user_stories
           pending == {i \in 1..Len(u) : u[i].status = "pending"}
       IN  IF pending = {}
           THEN fOut.story = NoStory
           ELSE /\ fOut.story.id \in pending
                /\ fOut.story = u[fOut.story.id]
                /\ fOut.logEntry = fOut.story.id
                /\ \A i \in pending :
                     \/ u[i].priority > fOut.story.priority
                     \/ u[i].priority = fOut.story.priority /\ i >= fOut.story.id

\* of a pending story of priority 2 followed by two pending stories of
\* priority 1, the second is taken
C32_Witness ==
  /\ fOut.fn = "currentStory"
  /\ fIn.user_stories = <<[id |-> 1, priority |-> 2, status |-> "pending"],
                          [id |-> 2, priority |-> 1, status |-> "pending"],
                          [id |-> 3, priority |-> 1, status |-> "pending"]>>
  /\ fOut.story.id = 2 /\ fOut.logEntry = 2

\* C35 as stated: the branch name is the prefix followed by the item's slug,
\* and ensureBranch, when it is not a dry run, creates the branch from the base
\* branch exactly when the branch is neither a local branch nor a
\* remote-tracked one, and reuses the existing branch otherwise.
C35_BranchCreatedOnlyWhenNowhere ==
  fOut.fn = "ensureBranch"
    => LET result == fOut.result
           createdFromBase ==
             \E k \in 1..Len(result.git) : result.git[k] = <<"checkout -b", result.branchName>>
       IN  /\ result.branchName = fIn.branchPrefix \o fIn.itemSlug
           /\ ~fIn.dryRun
                => /\ createdFromBase <=> (~fIn.refsHeads /\ ~fIn.refsRemotes)
                   /\ result.created <=> createdFromBase

\* the (id, state) entries of a list of items
IdStateEntries(itemSeq) == {<<itemSeq[i].id, itemSeq[i].state>> : i \in 1..Len(itemSeq)}

====
